---------------------------- MODULE Spec2Model ----------------------------
(***************************************************************************)
(* A model of the virtual file system: the block device (VDisk), the ARC   *)
(* write-back cache (ArcCacheDisk), the free map, the inode layer, the     *)
(* directory and the facade (Filesys).                                     *)
(*                                                                         *)
(* Two specifications share the module:                                    *)
(*   CacheSpec  drives ArcCacheDisk with arbitrary read/write/flush calls  *)
(*              next to a raw VDisk that receives the same calls;          *)
(*   Spec       drives the facade (Filesys) over the raw VDisk             *)
(*              (BufferCacheStrategy::None).                               *)
(*                                                                         *)
(* A block is a sequence of BLOCK_SIZE bytes.  A Size (block number,       *)
(* length) occupies SIZE_BYTES bytes, little-endian.  The sizes are scaled *)
(* down from the source (BLOCK_SIZE 1024 -> 16, Size u64 -> 2 bytes,       *)
(* NAME_MAX 15 -> 3); every derived quantity (PTRS_PER_BLOCK, the size of  *)
(* a directory entry, the inode layout) is computed from them as the       *)
(* source computes it.                                                     *)
(*                                                                         *)
(* A Rust panic ends the process: it is recorded in the `panic` field or   *)
(* variable, and no operation is taken afterwards.                         *)
(***************************************************************************)
EXTENDS Integers, Sequences, FiniteSets, TLC

(***************************************************************************)
(* Sizes                                                                   *)
(***************************************************************************)
BLOCK_SIZE == 16

SIZE_BYTES == 2

EMPTY_BLOCK == [i \in 1..BLOCK_SIZE |-> 0]

NoPanic == "none"

Min(a, b) == IF a <= b THEN a ELSE b

Max(a, b) == IF a >= b THEN a ELSE b

\* `let v = ...;` followed by Body: Body applied to the value of v
Eval(v, Body(_)) == CHOOSE r \in {Body(x) : x \in {v}} : TRUE

\* HashMap::insert
MapInsert(m, k, v) == [x \in (DOMAIN m) \cup {k} |-> IF x = k THEN v ELSE m[x]]

\* HashMap::remove
MapRemove(m, k) == [x \in (DOMAIN m) \ {k} |-> m[x]]

\* the empty HashMap
EmptyMap == [x \in {} |-> 0]

(***************************************************************************)
(* VDisk: the host file, one entry per block.                              *)
(***************************************************************************)
\* VDisk::new: set_len gives a host file of zero bytes
NewDisk(disk_block_count) == [b \in 0..(disk_block_count - 1) |-> EMPTY_BLOCK]

\* VDisk::read succeeds iff read_exact finds the whole block in the host file
DiskReadOk(d, pos) == pos \in DOMAIN d

DiskRead(d, pos) == d[pos]

\* VDisk::write: write_all past the end of the host file extends it with zeros
DiskWrite(d, buf, pos) ==
  [b \in (DOMAIN d) \cup (0..pos) |->
     IF b = pos THEN buf ELSE IF b \in DOMAIN d THEN d[b] ELSE EMPTY_BLOCK]

DISK_READ_ERR == "could not read all bytes to buffer"

(***************************************************************************)
(* ArcCacheDisk.  The cache is a record                                    *)
(*   block_device  the wrapped device (a VDisk)                            *)
(*   capacity, p, t1, t2, b1, b2, data_store, page_map   as in the source  *)
(*   buf           the caller's buffer after a read                        *)
(*   dev_log       the calls the cache made to block_device during the     *)
(*                 current read/write/flush, in order                      *)
(*   panic         NoPanic, or the message of the panic that ended it      *)
(***************************************************************************)
DIV_ZERO_ERR == "attempt to divide by zero"

EVICT_EMPTY_ERR == "evict: T1 and T2 are empty"

GHOST_MRU_ERR == "Tried to add to MRU of ghost list"

NOT_RESIDENT_ERR == "data_store: key not found"

Resident(loc) == loc \in {"T1", "T2"}

Ghost(loc) == loc \in {"B1", "B2"}

ArcNew(disk, capacity) ==
  [block_device |-> disk, capacity |-> capacity, p |-> 0,
   t1 |-> <<>>, t2 |-> <<>>, b1 |-> <<>>, b2 |-> <<>>,
   data_store |-> EmptyMap, page_map |-> EmptyMap,
   buf |-> EMPTY_BLOCK, dev_log |-> <<>>, panic |-> NoPanic]

CachePanic(c, msg) == [c EXCEPT !.panic = msg]

\* the index of the first element equal to x (0 if none): iter().position
RECURSIVE Position(_, _, _)
Position(list, x, i) ==
  IF i > Len(list) THEN 0
  ELSE IF list[i] = x THEN i ELSE Position(list, x, i + 1)

\* VecDeque::remove(i)
RemoveAt(list, i) == SubSeq(list, 1, i - 1) \o SubSeq(list, i + 1, Len(list))

RemoveFirst(list, x) ==
  IF Position(list, x, 1) = 0 THEN list ELSE RemoveAt(list, Position(list, x, 1))

ListOf(c, loc) ==
  CASE loc = "T1" -> c.t1
    [] loc = "T2" -> c.t2
    [] loc = "B1" -> c.b1
    [] loc = "B2" -> c.b2

SetList(c, loc, list) ==
  CASE loc = "T1" -> [c EXCEPT !.t1 = list]
    [] loc = "T2" -> [c EXCEPT !.t2 = list]
    [] loc = "B1" -> [c EXCEPT !.b1 = list]
    [] loc = "B2" -> [c EXCEPT !.b2 = list]

remove_from_list(c, pos, from) == SetList(c, from, RemoveFirst(ListOf(c, from), pos))

add_to_mru(c, pos, to) ==
  IF ~Resident(to) THEN CachePanic(c, GHOST_MRU_ERR)
  ELSE [SetList(c, to, Append(ListOf(c, to), pos))
          EXCEPT !.page_map = MapInsert(c.page_map, pos, to)]

move_page(c, pos, from, to) == add_to_mru(remove_from_list(c, pos, from), pos, to)

\* the underlying write of evict and flush
DevWrite(c, data, pos) ==
  [c EXCEPT !.block_device = DiskWrite(c.block_device, data, pos),
            !.dev_log = Append(c.dev_log, <<"write", pos, data>>)]

\* the choice of evict with the target left out: T1 whenever it is non-empty
evict_from_t1_always(c) == Len(c.t1) > 0

\* evict takes its victim from T1 (otherwise from T2)
evict_from_t1(c) == Len(c.t1) > 0 /\ (Len(c.t1) > c.p \/ Len(c.t2) = 0)

\* evict with the write-back of a dirty block left out
evict_no_write_back(c) ==
  IF Len(c.t1) = 0 /\ Len(c.t2) = 0 THEN CachePanic(c, EVICT_EMPTY_ERR)
  ELSE
    LET from_t1 == evict_from_t1(c)
        evicted_pos == IF from_t1 THEN Head(c.t1) ELSE Head(c.t2)
        popped == IF from_t1 THEN [c EXCEPT !.t1 = Tail(c.t1)]
                             ELSE [c EXCEPT !.t2 = Tail(c.t2)]
    IN  [popped EXCEPT
           !.data_store = MapRemove(popped.data_store, evicted_pos),
           !.page_map = MapInsert(popped.page_map, evicted_pos,
                                  IF from_t1 THEN "B1" ELSE "B2"),
           !.b1 = IF from_t1 THEN Append(popped.b1, evicted_pos) ELSE popped.b1,
           !.b2 = IF from_t1 THEN popped.b2 ELSE Append(popped.b2, evicted_pos)]

\* evict with the removal from the data store left out
evict_keep_data(c) ==
  IF Len(c.t1) = 0 /\ Len(c.t2) = 0 THEN CachePanic(c, EVICT_EMPTY_ERR)
  ELSE
    LET from_t1 == evict_from_t1(c)
        evicted_pos == IF from_t1 THEN Head(c.t1) ELSE Head(c.t2)
        popped == IF from_t1 THEN [c EXCEPT !.t1 = Tail(c.t1)]
                             ELSE [c EXCEPT !.t2 = Tail(c.t2)]
        written ==
          IF evicted_pos \in DOMAIN popped.data_store
             /\ popped.data_store[evicted_pos].is_dirty
          THEN DevWrite(popped, popped.data_store[evicted_pos].data, evicted_pos)
          ELSE popped
    IN  [written EXCEPT
           !.page_map = MapInsert(written.page_map, evicted_pos,
                                  IF from_t1 THEN "B1" ELSE "B2"),
           !.b1 = IF from_t1 THEN Append(written.b1, evicted_pos) ELSE written.b1,
           !.b2 = IF from_t1 THEN written.b2 ELSE Append(written.b2, evicted_pos)]

evict(c) ==
  IF Len(c.t1) = 0 /\ Len(c.t2) = 0 THEN CachePanic(c, EVICT_EMPTY_ERR)
  ELSE
    LET from_t1 == evict_from_t1(c)
        evicted_pos == IF from_t1 THEN Head(c.t1) ELSE Head(c.t2)
        popped == IF from_t1 THEN [c EXCEPT !.t1 = Tail(c.t1)]
                             ELSE [c EXCEPT !.t2 = Tail(c.t2)]
        written ==
          IF evicted_pos \in DOMAIN popped.data_store
             /\ popped.data_store[evicted_pos].is_dirty
          THEN DevWrite(popped, popped.data_store[evicted_pos].data, evicted_pos)
          ELSE popped
    IN  [written EXCEPT
           !.data_store = MapRemove(written.data_store, evicted_pos),
           !.page_map = MapInsert(written.page_map, evicted_pos,
                                  IF from_t1 THEN "B1" ELSE "B2"),
           !.b1 = IF from_t1 THEN Append(written.b1, evicted_pos) ELSE written.b1,
           !.b2 = IF from_t1 THEN written.b2 ELSE Append(written.b2, evicted_pos)]


\* the sentinel ghost_delta returns where the source divides by zero
DIV_ZERO == -1

\* if other.len() >= own.len() { 1 } else { own.len() / other.len() }
ghost_delta(own_len, other_len) ==
  IF other_len >= own_len THEN 1
  ELSE IF other_len = 0 THEN DIV_ZERO ELSE own_len \div other_len

LocationOf(c, pos) == IF pos \in DOMAIN c.page_map THEN c.page_map[pos] ELSE "None"

\* the B1 arm of read with the target left unclamped: p + delta, no min
read_ghost_b1_unclamped(c, pos) ==
  LET r == remove_from_list(c, pos, "B1")
      delta == ghost_delta(Len(r.b1), Len(r.b2))
  IN  IF delta = DIV_ZERO THEN CachePanic(r, DIV_ZERO_ERR)
      ELSE evict([r EXCEPT !.p = r.p + delta])

\* the B1 arm of read: remove from B1, adapt p upwards, evict
read_ghost_b1(c, pos) ==
  LET r == remove_from_list(c, pos, "B1")
      delta == ghost_delta(Len(r.b1), Len(r.b2))
  IN  IF delta = DIV_ZERO THEN CachePanic(r, DIV_ZERO_ERR)
      ELSE evict([r EXCEPT !.p = Min(r.p + delta, r.capacity)])

\* the B2 arm of read: remove from B2, adapt p downwards (saturating), evict
read_ghost_b2(c, pos) ==
  LET r == remove_from_list(c, pos, "B2")
      delta == ghost_delta(Len(r.b2), Len(r.b1))
  IN  IF delta = DIV_ZERO THEN CachePanic(r, DIV_ZERO_ERR)
      ELSE evict([r EXCEPT !.p = Max(r.p - delta, 0)])

\* the None arm of read and of write; this variant never evicts
cold_miss_no_evict(c) == c

cold_miss(c) == IF Len(c.t1) + Len(c.t2) >= c.capacity THEN evict(c) ELSE c

\* the tail of read: fetch from the device, insert at the MRU end, store clean
read_install(c, pos, location) ==
  IF c.panic # NoPanic THEN c
  ELSE IF ~DiskReadOk(c.block_device, pos) THEN CachePanic(c, DISK_READ_ERR)
  ELSE
    LET data == DiskRead(c.block_device, pos)
        fetched == [c EXCEPT !.buf = data,
                             !.dev_log = Append(c.dev_log, <<"read", pos, data>>)]
        added == add_to_mru(fetched, pos, IF Ghost(location) THEN "T2" ELSE "T1")
    IN  IF added.panic # NoPanic THEN added
        ELSE [added EXCEPT !.data_store =
                MapInsert(added.data_store, pos, [data |-> data, is_dirty |-> FALSE])]

\* the hit path of read
read_hit(c, pos, loc) ==
  LET moved == move_page(c, pos, loc, "T2")
  IN  IF moved.panic # NoPanic THEN moved
      ELSE IF pos \notin DOMAIN moved.data_store THEN CachePanic(moved, NOT_RESIDENT_ERR)
      ELSE [moved EXCEPT !.buf = moved.data_store[pos].data]

\* BlockOperations::read of ArcCacheDisk
ArcRead(c0, pos) ==
  LET c == [c0 EXCEPT !.dev_log = <<>>]
      location == LocationOf(c, pos)
  IN  IF Resident(location) THEN read_hit(c, pos, location)
      ELSE read_install(
             CASE location = "B1" -> read_ghost_b1(c, pos)
               [] location = "B2" -> read_ghost_b2(c, pos)
               [] OTHER -> cold_miss(c),
             pos, location)

\* the B1 arm of write: adapt p upwards, evict, then remove from B1
write_ghost_b1(c, pos) ==
  LET delta == ghost_delta(Len(c.b1), Len(c.b2))
  IN  IF delta = DIV_ZERO THEN CachePanic(c, DIV_ZERO_ERR)
      ELSE LET e == evict([c EXCEPT !.p = Min(c.p + delta, c.capacity)])
           IN  IF e.panic # NoPanic THEN e ELSE remove_from_list(e, pos, "B1")

\* the B2 arm of write: adapt p downwards (saturating), evict, then remove from B2
write_ghost_b2(c, pos) ==
  LET delta == ghost_delta(Len(c.b2), Len(c.b1))
  IN  IF delta = DIV_ZERO THEN CachePanic(c, DIV_ZERO_ERR)
      ELSE LET e == evict([c EXCEPT !.p = Max(c.p - delta, 0)])
           IN  IF e.panic # NoPanic THEN e ELSE remove_from_list(e, pos, "B2")

\* the tail of write: insert at the MRU end, store dirty, no device read
write_install(c, buf, pos, location) ==
  IF c.panic # NoPanic THEN c
  ELSE
    LET added == add_to_mru(c, pos, IF Ghost(location) THEN "T2" ELSE "T1")
    IN  IF added.panic # NoPanic THEN added
        ELSE [added EXCEPT !.data_store =
                MapInsert(added.data_store, pos, [data |-> buf, is_dirty |-> TRUE])]

\* the hit path of write
write_hit(c, buf, pos) ==
  LET stored == [c EXCEPT !.data_store[pos] = [data |-> buf, is_dirty |-> TRUE]]
  IN  IF pos \notin DOMAIN stored.page_map THEN CachePanic(stored, NOT_RESIDENT_ERR)
      ELSE move_page(stored, pos, stored.page_map[pos], "T2")

\* BlockOperations::write of ArcCacheDisk
ArcWrite(c0, buf, pos) ==
  LET c == [c0 EXCEPT !.dev_log = <<>>]
      location == LocationOf(c, pos)
  IN  IF pos \in DOMAIN c.data_store THEN write_hit(c, buf, pos)
      ELSE write_install(
             CASE location = "B1" -> write_ghost_b1(c, pos)
               [] location = "B2" -> write_ghost_b2(c, pos)
               [] location = "None" -> cold_miss(c)
               [] OTHER -> CachePanic(c, "unreachable"),
             buf, pos, location)

\* the loop of flush over the dirty entries, visited in the order `order`
RECURSIVE flush_entries(_, _)
flush_entries(c, order) ==
  IF order = <<>> THEN c
  ELSE LET pos == Head(order)
           w == DevWrite(c, c.data_store[pos].data, pos)
       IN  flush_entries([w EXCEPT !.data_store[pos].is_dirty = FALSE], Tail(order))

\* flush with the dirty flags left set: the entries are written, not marked clean
ArcFlush_keep_dirty(c0, order) ==
  [flush_entries([c0 EXCEPT !.dev_log = <<>>], order) EXCEPT !.data_store = c0.data_store]

\* BlockOperations::flush of ArcCacheDisk
ArcFlush(c0, order) == flush_entries([c0 EXCEPT !.dev_log = <<>>], order)

DirtySet(c) == {pos \in DOMAIN c.data_store : c.data_store[pos].is_dirty}

\* the orders in which a HashMap iteration can visit the set S
Orders(S) ==
  {o \in [1..Cardinality(S) -> S] : \A i, j \in 1..Cardinality(S) : i # j => o[i] # o[j]}

(***************************************************************************)
(* Byte layout.  transmute between a block and a record is the identity on *)
(* bytes; the functions below spell out the native (little-endian,         *)
(* repr(C)) layout it relies on.                                           *)
(***************************************************************************)
RECURSIVE Pow256(_)
Pow256(n) == IF n = 0 THEN 1 ELSE 256 * Pow256(n - 1)

\* the bytes of a Size, least significant first
SizeToBytes(v) == [i \in 1..SIZE_BYTES |-> (v \div Pow256(i - 1)) % 256]

RECURSIVE BytesToSizeFrom(_, _)
BytesToSizeFrom(bytes, i) ==
  IF i > Len(bytes) THEN 0 ELSE bytes[i] * Pow256(i - 1) + BytesToSizeFrom(bytes, i + 1)

BytesToSize(bytes) == BytesToSizeFrom(bytes, 1)

RECURSIVE Flatten(_)
Flatten(seqs) == IF seqs = <<>> THEN <<>> ELSE Head(seqs) \o Flatten(Tail(seqs))

Zeros(n) == [i \in 1..n |-> 0]

CeilDiv(a, b) == (a + b - 1) \div b

PTRS_PER_BLOCK == BLOCK_SIZE \div SIZE_BYTES

\* transmute_copy(&PtrBlock) -> Block
PtrsToBlock(ptrs) ==
  LET bytes == Flatten([i \in 1..Len(ptrs) |-> SizeToBytes(ptrs[i])])
  IN  [i \in 1..BLOCK_SIZE |-> IF i <= Len(bytes) THEN bytes[i] ELSE 0]

\* transmute(Block) -> PtrBlock
BlockToPtrs(block) ==
  [i \in 1..PTRS_PER_BLOCK |->
     BytesToSize(SubSeq(block, SIZE_BYTES * (i - 1) + 1, SIZE_BYTES * i))]

(***************************************************************************)
(* On-disk inode                                                           *)
(***************************************************************************)
\* 0x8BCEFADC kept to the SIZE_BYTES low bytes of a Size (0xFADC)
INODE_MAGIC == 64220

N_DIRECT == 4

N_INDIRECT == 1

N_DOUBLY_INDIRECT == 1

INODE_WORDS == 2 + N_DIRECT + N_INDIRECT + N_DOUBLY_INDIRECT

UNUSED_BYTES == BLOCK_SIZE - SIZE_BYTES * INODE_WORDS

\* InodeDisk::default
InodeDiskDefault ==
  [direct |-> Zeros(N_DIRECT), indirect |-> Zeros(N_INDIRECT),
   doubly_indirect |-> Zeros(N_DOUBLY_INDIRECT),
   magic |-> INODE_MAGIC, len |-> 0, unused |-> Zeros(UNUSED_BYTES)]

\* From<InodeDisk> for Block
InodeToBlock(data) ==
  Flatten([i \in 1..N_DIRECT |-> SizeToBytes(data.direct[i])])
  \o Flatten([i \in 1..N_INDIRECT |-> SizeToBytes(data.indirect[i])])
  \o Flatten([i \in 1..N_DOUBLY_INDIRECT |-> SizeToBytes(data.doubly_indirect[i])])
  \o SizeToBytes(data.magic) \o SizeToBytes(data.len) \o data.unused

\* From<Block> for InodeDisk
BlockToInode(block) ==
  LET w == BlockToPtrs(block)
  IN  [direct |-> SubSeq(w, 1, N_DIRECT),
       indirect |-> SubSeq(w, N_DIRECT + 1, N_DIRECT + N_INDIRECT),
       doubly_indirect |-> SubSeq(w, N_DIRECT + N_INDIRECT + 1,
                                  N_DIRECT + N_INDIRECT + N_DOUBLY_INDIRECT),
       magic |-> w[INODE_WORDS - 1], len |-> w[INODE_WORDS],
       unused |-> SubSeq(block, SIZE_BYTES * INODE_WORDS + 1, BLOCK_SIZE)]

(***************************************************************************)
(* Bitmap and FreeMap.  A bitmap is the function from bit index to its     *)
(* value; its domain is 0 .. count-1.                                      *)
(***************************************************************************)
ROOT_INODE == 0

FREE_MAP_INODE == 1

BitmapNew(count) == [b \in 0..(count - 1) |-> FALSE]

BitmapMark(bitmap, bit) == [bitmap EXCEPT ![bit] = TRUE]

BitmapReset(bitmap, bit) == [bitmap EXCEPT ![bit] = FALSE]

\* FreeMap::init
FreeMapInit(bits) == BitmapMark(BitmapMark(BitmapNew(bits), ROOT_INODE), FREE_MAP_INODE)

\* the scan of FreeMap::allocate from bit idx on: compare_and_flip each bit
RECURSIVE allocate_scan(_, _, _, _)
allocate_scan(bitmap, blocks, idx, allocations) ==
  IF ~(Len(allocations) < blocks /\ idx < Cardinality(DOMAIN bitmap))
  THEN [bitmap |-> bitmap, allocations |-> allocations]
  ELSE IF ~bitmap[idx]
       THEN allocate_scan(BitmapMark(bitmap, idx), blocks, idx + 1, Append(allocations, idx))
       ELSE allocate_scan(bitmap, blocks, idx + 1, allocations)

\* allocate with the final count test left out: whatever the scan obtained is
\* appended and the call returns true
allocate_partial(bitmap, blocks) ==
  LET scan == allocate_scan(bitmap, blocks, 0, <<>>)
  IN  [bitmap |-> scan.bitmap, ok |-> TRUE, dst |-> scan.allocations]

\* FreeMap::allocate: the bitmap after the call, the result, and what was
\* appended to dst
allocate(bitmap, blocks) ==
  LET scan == allocate_scan(bitmap, blocks, 0, <<>>)
      ok == Len(scan.allocations) = blocks
  IN  [bitmap |-> scan.bitmap, ok |-> ok,
       dst |-> IF ok THEN scan.allocations ELSE <<>>]

RELEASE_SET_ERR == "assertion failed: !self.bitmap.test(block)"

\* FreeMap::_release: asserts that the bit tests false, then resets it
release(bitmap, block) ==
  IF bitmap[block] THEN [bitmap |-> bitmap, panic |-> RELEASE_SET_ERR]
  ELSE [bitmap |-> BitmapReset(bitmap, block), panic |-> NoPanic]

(***************************************************************************)
(* Filling the block index (create_inode, set_len)                         *)
(***************************************************************************)
RECURSIVE fill_direct_from(_, _, _, _)
fill_direct_from(skip, dst, blocks, i) ==
  IF i > Len(dst) THEN [skip |-> skip, dst |-> dst, blocks |-> blocks]
  ELSE IF skip > 0 THEN fill_direct_from(skip - 1, dst, blocks, i + 1)
  ELSE IF blocks # <<>>
       THEN fill_direct_from(skip, [dst EXCEPT ![i] = Head(blocks)], Tail(blocks), i + 1)
       ELSE [skip |-> skip, dst |-> dst, blocks |-> blocks]

fill_direct(skip, dst, blocks) == fill_direct_from(skip, dst, blocks, 1)

RECURSIVE fill_indirect_from(_, _, _, _, _)
fill_indirect_from(skip, dst, blocks, disk, i) ==
  IF i > Len(dst) \/ blocks = <<>>
  THEN [skip |-> skip, dst |-> dst, blocks |-> blocks, disk |-> disk]
  ELSE Eval(fill_direct(skip, Zeros(PTRS_PER_BLOCK), Tail(blocks)),
            LAMBDA fd :
              fill_indirect_from(fd.skip, [dst EXCEPT ![i] = Head(blocks)], fd.blocks,
                                 DiskWrite(disk, PtrsToBlock(fd.dst), Head(blocks)),
                                 i + 1))

fill_indirect(skip, dst, blocks, disk) == fill_indirect_from(skip, dst, blocks, disk, 1)

RECURSIVE fill_doubly_indirect_from(_, _, _, _, _)
fill_doubly_indirect_from(skip, dst, blocks, disk, i) ==
  IF i > Len(dst) \/ blocks = <<>>
  THEN [skip |-> skip, dst |-> dst, blocks |-> blocks, disk |-> disk]
  ELSE Eval(fill_indirect(skip, Zeros(PTRS_PER_BLOCK), Tail(blocks), disk),
            LAMBDA fi :
              fill_doubly_indirect_from(fi.skip, [dst EXCEPT ![i] = Head(blocks)],
                                        fi.blocks,
                                        DiskWrite(fi.disk, PtrsToBlock(fi.dst),
                                                  Head(blocks)),
                                        i + 1))

fill_doubly_indirect(skip, dst, blocks, disk) ==
  fill_doubly_indirect_from(skip, dst, blocks, disk, 1)

(***************************************************************************)
(* Walking the block index (block_range)                                   *)
(***************************************************************************)
RECURSIVE direct_range_from(_, _, _, _, _)
direct_range_from(skip, count, direct, blocks, direct_count) ==
  IF ~(count > 0 /\ direct_count < Len(direct))
  THEN [skip |-> skip, count |-> count, blocks |-> blocks, ok |-> TRUE]
  ELSE IF skip > 0
       THEN direct_range_from(skip - 1, count, direct, blocks, direct_count + 1)
       ELSE direct_range_from(skip, count - 1, direct,
                              Append(blocks, direct[direct_count + 1]), direct_count + 1)

direct_range(skip, count, direct, blocks) ==
  direct_range_from(skip, count, direct, blocks, 0)

\* ok = FALSE: a disk read of the walk failed (the process panics)
RECURSIVE indirect_range_from(_, _, _, _, _, _)
indirect_range_from(skip, count, indirect, blocks, disk, indirect_count) ==
  IF ~(count > 0 /\ indirect_count < Len(indirect))
  THEN [skip |-> skip, count |-> count, blocks |-> blocks, ok |-> TRUE]
  ELSE IF ~DiskReadOk(disk, indirect[indirect_count + 1])
       THEN [skip |-> skip, count |-> count, blocks |-> blocks, ok |-> FALSE]
       ELSE Eval(direct_range(skip, count,
                   BlockToPtrs(DiskRead(disk, indirect[indirect_count + 1])), blocks),
                 LAMBDA r : indirect_range_from(r.skip, r.count, indirect, r.blocks, disk,
                                                indirect_count + 1))

indirect_range(skip, count, indirect, blocks, disk) ==
  indirect_range_from(skip, count, indirect, blocks, disk, 0)

RECURSIVE doubly_indirect_range_from(_, _, _, _, _, _)
doubly_indirect_range_from(skip, count, doubly_indirect, blocks, disk, n) ==
  IF ~(count > 0 /\ n < Len(doubly_indirect))
  THEN [skip |-> skip, count |-> count, blocks |-> blocks, ok |-> TRUE]
  ELSE IF ~DiskReadOk(disk, doubly_indirect[n + 1])
       THEN [skip |-> skip, count |-> count, blocks |-> blocks, ok |-> FALSE]
       ELSE Eval(indirect_range(skip, count,
                   BlockToPtrs(DiskRead(disk, doubly_indirect[n + 1])), blocks, disk),
                 LAMBDA r :
                   IF ~r.ok THEN r
                   ELSE doubly_indirect_range_from(r.skip, r.count, doubly_indirect,
                                                   r.blocks, disk, n + 1))

doubly_indirect_range(skip, count, doubly_indirect, blocks, disk) ==
  doubly_indirect_range_from(skip, count, doubly_indirect, blocks, disk, 0)

\* InodeDisk::block_range
block_range(data, buf_len, offset, disk) ==
  Eval(direct_range(offset \div BLOCK_SIZE, CeilDiv(buf_len, BLOCK_SIZE),
                    data.direct, <<>>),
       LAMBDA d :
         Eval(indirect_range(d.skip, d.count, data.indirect, d.blocks, disk),
              LAMBDA i :
                IF ~i.ok THEN i
                ELSE doubly_indirect_range(i.skip, i.count, data.doubly_indirect,
                                           i.blocks, disk)))

(***************************************************************************)
(* Inode: read_at, write_at, set_len                                       *)
(***************************************************************************)
BLOCK_NOT_FOUND_ERR == "block not found"

SUB_OVERFLOW_ERR == "attempt to subtract with overflow"

\* buffer with chunk bytes of bounce, from block_ofs on, copied in at position at
CopyOut(buffer, at, bounce, block_ofs, chunk) ==
  [j \in 1..Len(buffer) |->
     IF j > at /\ j <= at + chunk THEN bounce[block_ofs + (j - at)] ELSE buffer[j]]

\* bounce with chunk bytes of buffer, from position at on, copied in at block_ofs
CopyIn(bounce, block_ofs, buffer, at, chunk) ==
  [j \in 1..Len(bounce) |->
     IF j > block_ofs /\ j <= block_ofs + chunk THEN buffer[at + (j - block_ofs)]
     ELSE bounce[j]]

\* the loop of read_at
RECURSIVE read_loop(_, _, _, _, _, _, _)
read_loop(data, disk, buffer, size, ofs, bytes_written, blocks) ==
  IF ~(size > 0) THEN [buffer |-> buffer, n |-> bytes_written, panic |-> NoPanic]
  ELSE IF blocks = <<>>
       THEN [buffer |-> buffer, n |-> bytes_written, panic |-> BLOCK_NOT_FOUND_ERR]
  ELSE
    LET block_ofs == ofs % BLOCK_SIZE
        block_idx == Head(blocks)
        inode_left == data.len - ofs
        block_left == BLOCK_SIZE - block_ofs
        chunk_size == Min(size, Min(inode_left, block_left))
    IN  IF chunk_size <= 0
        THEN [buffer |-> buffer, n |-> bytes_written, panic |-> NoPanic]
        ELSE IF ~DiskReadOk(disk, block_idx)
        THEN [buffer |-> buffer, n |-> bytes_written, panic |-> DISK_READ_ERR]
        ELSE read_loop(data, disk,
                       CopyOut(buffer, bytes_written, DiskRead(disk, block_idx),
                               block_ofs, chunk_size),
                       size - chunk_size, ofs + chunk_size,
                       bytes_written + chunk_size, Tail(blocks))

\* Inode::read_at: the buffer afterwards, the byte count, the panic if any
read_at(data, buffer, offset, disk) ==
  Eval(block_range(data, Len(buffer), offset, disk),
       LAMBDA r :
         IF ~r.ok THEN [buffer |-> buffer, n |-> 0, panic |-> DISK_READ_ERR]
         ELSE read_loop(data, disk, buffer, Len(buffer), offset, 0, r.blocks))

\* the loop of write_at
RECURSIVE write_loop(_, _, _, _, _, _, _)
write_loop(data, disk, buffer, size, ofs, bytes_written, blocks) ==
  IF ~(size > 0) THEN [disk |-> disk, n |-> bytes_written, panic |-> NoPanic]
  ELSE IF blocks = <<>>
       THEN [disk |-> disk, n |-> bytes_written, panic |-> BLOCK_NOT_FOUND_ERR]
  ELSE
    LET block_ofs == ofs % BLOCK_SIZE
        block_idx == Head(blocks)
        inode_left == data.len - ofs
        block_left == BLOCK_SIZE - block_ofs
        chunk_size == Min(size, Min(inode_left, block_left))
    IN  IF chunk_size <= 0
        THEN [disk |-> disk, n |-> bytes_written, panic |-> NoPanic]
        ELSE IF ~DiskReadOk(disk, block_idx)
        THEN [disk |-> disk, n |-> bytes_written, panic |-> DISK_READ_ERR]
        ELSE write_loop(data,
                        DiskWrite(disk,
                                  CopyIn(DiskRead(disk, block_idx), block_ofs, buffer,
                                         bytes_written, chunk_size),
                                  block_idx),
                        buffer, size - chunk_size, ofs + chunk_size,
                        bytes_written + chunk_size, Tail(blocks))

\* Inode::write_at: the disk afterwards, the byte count, the panic if any
write_at(data, buffer, offset, disk) ==
  Eval(block_range(data, Len(buffer), offset, disk),
       LAMBDA r :
         IF ~r.ok THEN [disk |-> disk, n |-> 0, panic |-> DISK_READ_ERR]
         ELSE write_loop(data, disk, buffer, Len(buffer), offset, 0, r.blocks))

\* Inode::set_len.  The allocating arm is taken when the current block count
\* exceeds the requested one; req_block_count - cur_block_count then
\* underflows (a panic in a build with overflow checks).
set_len(inode, len, bitmap, disk) ==
  LET cur_block_count == CeilDiv(inode.data.len, BLOCK_SIZE)
      req_block_count == CeilDiv(len, BLOCK_SIZE)
  IN  IF cur_block_count <= req_block_count
      THEN [inode |-> [inode EXCEPT !.data.len = len], bitmap |-> bitmap,
            disk |-> disk, panic |-> NoPanic]
      ELSE [inode |-> inode, bitmap |-> bitmap, disk |-> disk,
            panic |-> SUB_OVERFLOW_ERR]

(***************************************************************************)
(* InodeManager: open_list is the sequence of in-memory inodes             *)
(***************************************************************************)
\* the index in open_list of the inode of block block_num (0 if none)
RECURSIVE OpenIndexFrom(_, _, _)
OpenIndexFrom(open_list, block_num, i) ==
  IF i > Len(open_list) THEN 0
  ELSE IF open_list[i].block = block_num THEN i
  ELSE OpenIndexFrom(open_list, block_num, i + 1)

OpenIndex(open_list, block_num) == OpenIndexFrom(open_list, block_num, 1)

\* InodeManager::create_inode
create_inode(length, disk, bitmap, open_list) ==
  Eval(allocate(bitmap, 1 + CeilDiv(length, BLOCK_SIZE)),
       LAMBDA a :
         IF a.dst = <<>>
         THEN [disk |-> disk, bitmap |-> a.bitmap, open_list |-> open_list,
               inumber |-> 0, panic |-> BLOCK_NOT_FOUND_ERR]
         ELSE
           Eval(fill_direct(0, InodeDiskDefault.direct, Tail(a.dst)),
           LAMBDA fd :
             Eval(fill_indirect(fd.skip, InodeDiskDefault.indirect, fd.blocks, disk),
             LAMBDA fi :
               Eval(fill_doubly_indirect(fi.skip, fi.dst, fi.blocks, fi.disk),
               LAMBDA fdi :
                 Eval([InodeDiskDefault EXCEPT !.direct = fd.dst, !.indirect = fdi.dst,
                                               !.len = length],
                 LAMBDA data :
                   [disk |-> DiskWrite(fdi.disk, InodeToBlock(data), Head(a.dst)),
                    bitmap |-> a.bitmap,
                    open_list |-> Append(open_list,
                                    [open_count |-> 1, block |-> Head(a.dst),
                                     data |-> data]),
                    inumber |-> Head(a.dst), panic |-> NoPanic])))))

\* InodeManager::open_inode
open_inode(open_list, block_num, disk) ==
  IF OpenIndex(open_list, block_num) # 0
  THEN [open_list |-> [open_list EXCEPT
                         ![OpenIndex(open_list, block_num)].open_count = @ + 1],
        panic |-> NoPanic]
  ELSE IF ~DiskReadOk(disk, block_num)
  THEN [open_list |-> open_list, panic |-> DISK_READ_ERR]
  ELSE [open_list |-> Append(open_list,
                        [open_count |-> 1, block |-> block_num,
                         data |-> BlockToInode(DiskRead(disk, block_num))]),
        panic |-> NoPanic]

INODE_NOT_FOUND_ERR == "internal error: inode not found"

\* InodeManager::close.  The handle is a reference to a slot of the buffer of
\* open_list: slots is the buffer (the slots from len + 1 on keep what was last
\* stored in them), len the length of the Vec, h the slot the handle refers to.
\* decr_open on a count of 0 overflows (a panic in a debug build).
close(slots, len, h) ==
  IF slots[h].open_count = 0
  THEN [slots |-> slots, len |-> len, panic |-> SUB_OVERFLOW_ERR]
  ELSE Eval([slots EXCEPT ![h].open_count = @ - 1],
       LAMBDA s :
         IF s[h].open_count # 0 THEN [slots |-> s, len |-> len, panic |-> NoPanic]
         ELSE IF OpenIndex(SubSeq(s, 1, len), s[h].block) = 0
         THEN [slots |-> s, len |-> len, panic |-> INODE_NOT_FOUND_ERR]
         ELSE [slots |-> [s EXCEPT ![OpenIndex(SubSeq(s, 1, len), s[h].block)] =
                                     s[len]],
               len |-> len - 1, panic |-> NoPanic])

(***************************************************************************)
(* Directory.  A path is a sequence of character codes.  A DirEntry is     *)
(* name (NAME_MAX+1 bytes), block (a Size, aligned), in_use (one byte) and *)
(* padding up to the alignment of Size.                                    *)
(*   ub   what reading an in_use byte other than 0 and 1 as bool yields    *)
(*        (undefined behaviour)                                            *)
(*   pad  the value of the uninitialised padding bytes of an entry that is *)
(*        written to the directory                                         *)
(***************************************************************************)
NAME_MAX == 3

NAME_LEN == NAME_MAX + 1

NON_ASCII_ERR == "encountered non-ascii character"

INDEX_ERR == "index out of bounds"

INVALID_NAME_ERR == "should not call this without valid name"

NOT_TERMINATED_ERR == "not null-terminated"

RoundUp(n, a) == CeilDiv(n, a) * a

ENTRY_BLOCK_OFS == RoundUp(NAME_LEN, SIZE_BYTES)

ENTRY_IN_USE_OFS == ENTRY_BLOCK_OFS + SIZE_BYTES

\* size_of::<DirEntry>()
ENTRY_SIZE == RoundUp(ENTRY_IN_USE_OFS + 1, SIZE_BYTES)

\* the bytes of a DirEntry in memory
EntryToBytes(entry, pad) ==
  [j \in 1..ENTRY_SIZE |->
     IF j <= NAME_LEN THEN entry.name[j]
     ELSE IF j > ENTRY_BLOCK_OFS /\ j <= ENTRY_IN_USE_OFS
          THEN SizeToBytes(entry.block)[j - ENTRY_BLOCK_OFS]
     ELSE IF j = ENTRY_IN_USE_OFS + 1 THEN (IF entry.in_use THEN 1 ELSE 0)
     ELSE pad]

\* transmute(raw) -> DirEntry
BytesToEntry(raw, ub) ==
  [name |-> SubSeq(raw, 1, NAME_LEN),
   block |-> BytesToSize(SubSeq(raw, ENTRY_BLOCK_OFS + 1, ENTRY_IN_USE_OFS)),
   in_use |-> IF raw[ENTRY_IN_USE_OFS + 1] \in {0, 1}
              THEN raw[ENTRY_IN_USE_OFS + 1] = 1 ELSE ub]

\* str::len: the length of the path in bytes (UTF-8)
RECURSIVE Utf8Len(_)
Utf8Len(path) ==
  IF path = <<>> THEN 0
  ELSE (IF Head(path) < 128 THEN 1 ELSE IF Head(path) < 2048 THEN 2
        ELSE IF Head(path) < 65536 THEN 3 ELSE 4) + Utf8Len(Tail(path))

\* for (i, c) in path.chars().enumerate() { name[i] = c.try_into().expect(..) }
RECURSIVE name_from(_, _, _)
name_from(path, name, i) ==
  IF i > Len(path) THEN [name |-> name, panic |-> NoPanic]
  ELSE IF path[i] > 255 THEN [name |-> name, panic |-> NON_ASCII_ERR]
  ELSE IF i > NAME_LEN THEN [name |-> name, panic |-> INDEX_ERR]
  ELSE name_from(path, [name EXCEPT ![i] = path[i]], i + 1)

file_name(path) == name_from(path, Zeros(NAME_LEN), 1)

\* the loop of Dir::lookup
RECURSIVE lookup_from(_, _, _, _, _)
lookup_from(data, name, disk, start, ub) ==
  IF ~(start + ENTRY_SIZE <= data.len)
  THEN [found |-> FALSE, block |-> 0, panic |-> NoPanic]
  ELSE Eval(read_at(data, Zeros(ENTRY_SIZE), start, disk),
       LAMBDA r :
         IF r.panic # NoPanic THEN [found |-> FALSE, block |-> 0, panic |-> r.panic]
         ELSE Eval(BytesToEntry(r.buffer, ub),
              LAMBDA entry :
                IF entry.in_use /\ entry.name = name
                THEN [found |-> TRUE, block |-> entry.block, panic |-> NoPanic]
                ELSE lookup_from(data, name, disk, start + ENTRY_SIZE, ub)))

\* Dir::lookup
lookup(data, path, disk, ub) ==
  IF path = <<>> \/ Utf8Len(path) > NAME_MAX
  THEN [found |-> FALSE, block |-> 0, panic |-> INVALID_NAME_ERR]
  ELSE Eval(file_name(path),
       LAMBDA n :
         IF n.panic # NoPanic THEN [found |-> FALSE, block |-> 0, panic |-> n.panic]
         ELSE lookup_from(data, n.name, disk, 0, ub))

\* the scan of Dir::add for a slot not in use: the offset of the slot found
\* (-1 if none)
RECURSIVE free_slot_from(_, _, _, _)
free_slot_from(data, disk, start, ub) ==
  IF ~(start + ENTRY_SIZE < data.len) THEN [start |-> -1, panic |-> NoPanic]
  ELSE Eval(read_at(data, Zeros(ENTRY_SIZE), start, disk),
       LAMBDA r :
         IF r.panic # NoPanic THEN [start |-> -1, panic |-> r.panic]
         ELSE IF ~BytesToEntry(r.buffer, ub).in_use
         THEN [start |-> start, panic |-> NoPanic]
         ELSE free_slot_from(data, disk, start + ENTRY_SIZE, ub))

\* the arm of Dir::add that extends the directory file
add_extend(inode, name, block, bitmap, disk, pad) ==
  Eval(set_len(inode, inode.data.len + ENTRY_SIZE, bitmap, disk),
       LAMBDA s :
         IF s.panic # NoPanic
         THEN [ret |-> FALSE, inode |-> s.inode, bitmap |-> s.bitmap, disk |-> s.disk,
               panic |-> s.panic]
         ELSE Eval(write_at(s.inode.data,
                            EntryToBytes([name |-> name, block |-> block,
                                          in_use |-> TRUE], pad),
                            CeilDiv(inode.data.len, ENTRY_SIZE), s.disk),
              LAMBDA w :
                [ret |-> w.panic = NoPanic, inode |-> s.inode, bitmap |-> s.bitmap,
                 disk |-> w.disk, panic |-> w.panic]))

\* the arm of Dir::add that looks for a slot not in use
add_slot(inode, name, block, bitmap, disk, ub, pad) ==
  Eval(free_slot_from(inode.data, disk, 0, ub),
       LAMBDA f :
         IF f.panic # NoPanic
         THEN [ret |-> FALSE, inode |-> inode, bitmap |-> bitmap, disk |-> disk,
               panic |-> f.panic]
         ELSE IF f.start >= 0
         THEN Eval(write_at(inode.data,
                            EntryToBytes([name |-> name, block |-> block,
                                          in_use |-> TRUE], pad),
                            f.start, disk),
              LAMBDA w :
                [ret |-> w.panic = NoPanic, inode |-> inode, bitmap |-> bitmap,
                 disk |-> w.disk, panic |-> w.panic])
         ELSE add_extend(inode, name, block, bitmap, disk, pad))

\* Dir::add on the directory inode `inode`
add(inode, path, block, bitmap, disk, ub, pad) ==
  Eval(file_name(path),
       LAMBDA n :
         IF n.panic # NoPanic
         THEN [ret |-> FALSE, inode |-> inode, bitmap |-> bitmap, disk |-> disk,
               panic |-> n.panic]
         ELSE IF path = <<>> \/ Utf8Len(path) > NAME_MAX
         THEN [ret |-> FALSE, inode |-> inode, bitmap |-> bitmap, disk |-> disk,
               panic |-> NoPanic]
         ELSE Eval(lookup(inode.data, path, disk, ub),
              LAMBDA l :
                IF l.panic # NoPanic \/ l.found
                THEN [ret |-> FALSE, inode |-> inode, bitmap |-> bitmap, disk |-> disk,
                      panic |-> l.panic]
                ELSE add_slot(inode, n.name, block, bitmap, disk, ub, pad)))

\* entry.name[..terminator] with terminator the position of the first 0
RECURSIVE UpToNul(_)
UpToNul(name) ==
  IF name = <<>> \/ Head(name) = 0 THEN <<>> ELSE <<Head(name)>> \o UpToNul(Tail(name))

\* the loop of Dir::list.  String::from_utf8 rejects a byte >= 128 that is not
\* part of a well-formed multi-byte sequence; no name of the model forms one.
RECURSIVE list_from(_, _, _, _, _)
list_from(data, disk, start, files, ub) ==
  IF ~(start + ENTRY_SIZE <= data.len) THEN [files |-> files, panic |-> NoPanic]
  ELSE Eval(read_at(data, Zeros(ENTRY_SIZE), start, disk),
       LAMBDA r :
         IF r.panic # NoPanic THEN [files |-> files, panic |-> r.panic]
         ELSE Eval(BytesToEntry(r.buffer, ub),
              LAMBDA entry :
                IF ~entry.in_use
                THEN list_from(data, disk, start + ENTRY_SIZE, files, ub)
                ELSE IF \A j \in 1..NAME_LEN : entry.name[j] # 0
                THEN [files |-> files, panic |-> NOT_TERMINATED_ERR]
                ELSE IF \E j \in 1..Len(UpToNul(entry.name)) :
                          UpToNul(entry.name)[j] >= 128
                THEN [files |-> files, panic |-> NON_ASCII_ERR]
                ELSE list_from(data, disk, start + ENTRY_SIZE,
                               Append(files, UpToNul(entry.name)), ub)))

\* Dir::list
dir_list(data, disk, ub) == list_from(data, disk, 0, <<>>, ub)

(***************************************************************************)
(* Facade (Filesys) and VFile.  The state of the facade is the record      *)
(*   disk       the registered device (a VDisk)                            *)
(*   free_map   <<>> before init_free_map, <<bitmap>> after                *)
(*   open_list  the open-inode table of the InodeManager                   *)
(* A VFile is [pos, inumber]; it refers to the entry of open_list whose    *)
(* block is inumber.                                                       *)
(***************************************************************************)
NO_FREE_MAP_ERR == "free map not initialised"

FsPanic(st, panic) == [st |-> st, ok |-> FALSE, file |-> <<>>, panic |-> panic]

\* Filesys::init_free_map
init_free_map(st, block_count) ==
  Eval(open_inode(st.open_list, FREE_MAP_INODE, st.disk),
       LAMBDA o :
         IF o.panic # NoPanic THEN FsPanic(st, o.panic)
         ELSE [st |-> [st EXCEPT !.open_list = o.open_list,
                                 !.free_map = <<FreeMapInit(block_count)>>],
               ok |-> TRUE, file |-> <<>>, panic |-> NoPanic])

\* Filesys::create_file
create_file(st, path, length, ub, pad) ==
  IF st.free_map = <<>> THEN FsPanic(st, NO_FREE_MAP_ERR)
  ELSE
    Eval(create_inode(length, st.disk, st.free_map[1], st.open_list),
    LAMBDA c :
      IF c.panic # NoPanic
      THEN FsPanic([st EXCEPT !.free_map = <<c.bitmap>>], c.panic)
      ELSE
        Eval(open_inode(c.open_list, ROOT_INODE, c.disk),
        LAMBDA o :
          IF o.panic # NoPanic
          THEN FsPanic([disk |-> c.disk, free_map |-> <<c.bitmap>>,
                        open_list |-> c.open_list], o.panic)
          ELSE
            Eval(add(o.open_list[OpenIndex(o.open_list, ROOT_INODE)], path, c.inumber,
                     c.bitmap, c.disk, ub, pad),
            LAMBDA a :
              [st |-> [disk |-> a.disk, free_map |-> <<a.bitmap>>,
                       open_list |-> [o.open_list EXCEPT
                                        ![OpenIndex(o.open_list, ROOT_INODE)] = a.inode]],
               ok |-> a.ret, file |-> <<>>, panic |-> a.panic])))

\* Filesys::open_file; file is <<>> for None and <<VFile>> for Some
open_file(st, path, ub) ==
  Eval(open_inode(st.open_list, ROOT_INODE, st.disk),
  LAMBDA o :
    IF o.panic # NoPanic THEN FsPanic(st, o.panic)
    ELSE
      Eval(lookup(o.open_list[OpenIndex(o.open_list, ROOT_INODE)].data, path,
                  st.disk, ub),
      LAMBDA l :
        IF l.panic # NoPanic
        THEN FsPanic([st EXCEPT !.open_list = o.open_list], l.panic)
        ELSE IF ~l.found
        THEN [st |-> [st EXCEPT !.open_list = o.open_list], ok |-> FALSE,
              file |-> <<>>, panic |-> NoPanic]
        ELSE
          Eval(open_inode(o.open_list, l.block, st.disk),
          LAMBDA f :
            IF f.panic # NoPanic
            THEN FsPanic([st EXCEPT !.open_list = o.open_list], f.panic)
            ELSE [st |-> [st EXCEPT !.open_list = f.open_list], ok |-> TRUE,
                  file |-> <<[pos |-> 0, inumber |-> l.block]>>, panic |-> NoPanic])))

\* the inode a VFile refers to
InodeOf(st, file) == st.open_list[OpenIndex(st.open_list, file.inumber)]

\* Filesys::file_write, VFile::write
file_write(st, file, buffer, offset) ==
  Eval(write_at(InodeOf(st, file).data, buffer, file.pos + offset, st.disk),
       LAMBDA w :
         [st |-> [st EXCEPT !.disk = w.disk], n |-> w.n,
          file |-> [file EXCEPT !.pos = @ + w.n], panic |-> w.panic])

\* Filesys::file_read, VFile::read
file_read(st, file, buffer, offset) ==
  Eval(read_at(InodeOf(st, file).data, buffer, file.pos + offset, st.disk),
       LAMBDA r :
         [st |-> st, n |-> r.n, buffer |-> r.buffer,
          file |-> [file EXCEPT !.pos = @ + r.n], panic |-> r.panic])

\* VFile::seek_start
seek_start(file) == [file EXCEPT !.pos = 0]

\* Filesys::list
fs_list(st, ub) ==
  Eval(open_inode(st.open_list, ROOT_INODE, st.disk),
       LAMBDA o :
         IF o.panic # NoPanic THEN [st |-> st, files |-> <<>>, panic |-> o.panic]
         ELSE Eval(dir_list(o.open_list[OpenIndex(o.open_list, ROOT_INODE)].data,
                            st.disk, ub),
              LAMBDA l :
                [st |-> [st EXCEPT !.open_list = o.open_list], files |-> l.files,
                 panic |-> l.panic]))

(***************************************************************************)
(* Bounds of the cache specification                                       *)
(***************************************************************************)
\* the blocks the calls address are 0 .. CacheBlocks-1
CacheBlocks == 4

\* the capacity is any of 1 .. MaxCapacity
MaxCapacity == 2

\* a written buffer is a block filled with one of 1 .. MaxFill
MaxFill == 1

VARIABLES
  cache,     \* the ArcCacheDisk wrapping a VDisk
  raw,       \* a VDisk alone that receives the same calls
  rawbuf,    \* the caller's buffer after a read of raw
  call,      \* the last call: op, pos, buf and the location of pos before it
  unflushed, \* the resident blocks written through the cache and not flushed since
  fs,        \* the facade: disk, free_map, open_list
  files,     \* the VFiles the client holds
  panic,     \* NoPanic, or the message of the panic that ended the process
  last,      \* the last facade call and what it returned
  created,   \* the inumbers of the files whose create_file returned true
  added,     \* <<name, inumber>> of every create_file that returned true
  proto,     \* how far the client is in create, open, write, seek_start, read
  im,        \* the InodeManager used alone: its table, device, free map, handles
  fm         \* the FreeMap used alone: its bitmap, the last call and its dst

cvars == <<cache, raw, rawbuf, call, unflushed>>

fvars == <<fs, files, panic, last, created, added, proto>>

ivars == <<im>>

mvars == <<fm>>

vars == <<cvars, fvars, ivars, mvars>>

Fill(v) == [i \in 1..BLOCK_SIZE |-> v]

CachePositions == 0..(CacheBlocks - 1)

WriteBufs == {Fill(v) : v \in 1..MaxFill}

NoCall == [op |-> "none", path |-> <<>>, length |-> 0, h |-> 0, ok |-> FALSE,
           n |-> 0, buffer |-> <<>>, names |-> <<>>, offset |-> 0]

NoProto == [stage |-> 0, path |-> <<>>, length |-> 0, h |-> 0, s |-> <<>>,
            wn |-> 0, rn |-> 0, rbuf |-> <<>>]

\* an open-inode table slot nothing was stored in
VacantSlot == [open_count |-> 0, block |-> 0, data |-> InodeDiskDefault]

\* the InodeManager is not used alone under CacheSpec and Spec
InodesIdle ==
  im = [slots |-> <<>>, len |-> 0, disk |-> <<>>, bitmap |-> <<>>, handles |-> <<>>,
        held |-> 0, refs |-> <<>>, inodes |-> {}, panic |-> NoPanic, op |-> "none"]

\* the FreeMap is not used alone under CacheSpec, Spec and InodesSpec
FreeMapIdle ==
  fm = [bitmap |-> <<>>, op |-> "none", blocks |-> 0, block |-> 0, before |-> <<>>,
        dst |-> <<>>, ok |-> FALSE, handed |-> <<>>, panic |-> NoPanic]

\* the facade is not in use under CacheSpec
FsIdle ==
  /\ fs = [disk |-> <<>>, free_map |-> <<>>, open_list |-> <<>>]
  /\ files = <<>>
  /\ panic = NoPanic
  /\ last = NoCall
  /\ created = {}
  /\ added = {}
  /\ proto = NoProto

\* the cache is not in use under Spec
CacheIdle ==
  /\ cache = ArcNew(<<>>, 1)
  /\ raw = <<>>
  /\ rawbuf = EMPTY_BLOCK
  /\ call = [op |-> "none", pos |-> 0, buf |-> EMPTY_BLOCK, loc |-> "None"]
  /\ unflushed = {}

CacheInit ==
  /\ \E capacity \in 1..MaxCapacity :
       cache = ArcNew(NewDisk(CacheBlocks), capacity)
  /\ raw = NewDisk(CacheBlocks)
  /\ rawbuf = EMPTY_BLOCK
  /\ call = [op |-> "none", pos |-> 0, buf |-> EMPTY_BLOCK, loc |-> "None"]
  /\ unflushed = {}
  /\ FsIdle
  /\ InodesIdle
  /\ FreeMapIdle

CacheRead(pos) ==
  /\ cache.panic = NoPanic
  /\ cache' = ArcRead(cache, pos)
  /\ raw' = raw
  /\ rawbuf' = DiskRead(raw, pos)
  /\ call' = [op |-> "read", pos |-> pos, buf |-> EMPTY_BLOCK,
              loc |-> LocationOf(cache, pos)]
  /\ unflushed' = unflushed \cap DOMAIN cache'.data_store
  /\ UNCHANGED <<fvars, ivars, mvars>>

CacheWrite(pos, buf) ==
  /\ cache.panic = NoPanic
  /\ cache' = ArcWrite(cache, buf, pos)
  /\ raw' = DiskWrite(raw, buf, pos)
  /\ rawbuf' = rawbuf
  /\ call' = [op |-> "write", pos |-> pos, buf |-> buf,
              loc |-> LocationOf(cache, pos)]
  /\ unflushed' = (unflushed \cup {pos}) \cap DOMAIN cache'.data_store
  /\ UNCHANGED <<fvars, ivars, mvars>>

CacheFlush ==
  /\ cache.panic = NoPanic
  /\ \E order \in Orders(DirtySet(cache)) : cache' = ArcFlush(cache, order)
  /\ call' = [op |-> "flush", pos |-> 0, buf |-> EMPTY_BLOCK, loc |-> "None"]
  /\ unflushed' = {}
  /\ UNCHANGED <<raw, rawbuf>>
  /\ UNCHANGED <<fvars, ivars, mvars>>

CacheNext ==
  \/ \E pos \in CachePositions : CacheRead(pos)
  \/ \E pos \in CachePositions, buf \in WriteBufs : CacheWrite(pos, buf)
  \/ CacheFlush

CacheSpec == CacheInit /\ [][CacheNext]_vars

(***************************************************************************)
(* The facade specification.  The client calls init_free_map once, then    *)
(* create_file, open_file, file_write, seek_start, file_read and list in   *)
(* any order.                                                              *)
(***************************************************************************)
\* the disk_block_count given to new_disk
DISK_BLOCKS == 18

\* create_file, open_file and list are called while the open count of the root
\* directory, which each of them increments, is below MaxOpens
MaxOpens == 3

\* the client holds at most MaxHandles VFiles
MaxHandles == 2

\* the written sequences are Pattern(k, n) for k in 1 .. MaxPattern
MaxPattern == 1

\* the valid names the client uses: "a" and "b" (a path is its sequence of chars)
Names == {<<97>>, <<98>>}

\* the names a directory must reject: the empty name, names of NAME_MAX + 1 and
\* NAME_MAX + 2 bytes, and names with a non-ASCII char (U+00E9, U+20AC)
InvalidNames ==
  {<<>>, [i \in 1..NAME_MAX + 1 |-> 96 + i], [i \in 1..NAME_MAX + 2 |-> 96 + i],
   <<233>>, <<8364>>}

\* lengths of 0, 1 and 2 blocks, of N_DIRECT + 1 blocks (indirect), and of
\* N_DIRECT + PTRS_PER_BLOCK + 1 and + 2 blocks (doubly indirect)
Lengths ==
  {0, 5, 2 * BLOCK_SIZE, (N_DIRECT + 1) * BLOCK_SIZE,
   (N_DIRECT + PTRS_PER_BLOCK + 1) * BLOCK_SIZE,
   (N_DIRECT + PTRS_PER_BLOCK + 2) * BLOCK_SIZE}

\* the byte sequence of length n whose byte i is i + k - 1 (mod 256)
Pattern(k, n) == [i \in 1..n |-> (i + k - 1) % 256]

\* the values an uninitialised padding byte takes in the model
PadBytes == {0, 170}

\* the buffer the client hands to file_read
ReadBuffer(len) == [i \in 1..len |-> 255]

\* the inumber of the inode create_inode pushed: the entry of the open_list
\* after the call at the position that follows the open_list before it
NewInumber(before, after) == after[Len(before) + 1].block

\* the open count of the root directory (0 while it is not in open_list)
RootOpens ==
  IF OpenIndex(fs.open_list, ROOT_INODE) = 0 THEN 0
  ELSE fs.open_list[OpenIndex(fs.open_list, ROOT_INODE)].open_count

Init ==
  /\ fs = [disk |-> NewDisk(DISK_BLOCKS), free_map |-> <<>>, open_list |-> <<>>]
  /\ files = <<>>
  /\ panic = NoPanic
  /\ last = NoCall
  /\ created = {}
  /\ added = {}
  /\ proto = NoProto
  /\ CacheIdle
  /\ InodesIdle
  /\ FreeMapIdle

InitFreeMap ==
  /\ panic = NoPanic
  /\ fs.free_map = <<>>
  /\ \E r \in {init_free_map(fs, DISK_BLOCKS)} :
       /\ fs' = r.st
       /\ panic' = r.panic
       /\ last' = [NoCall EXCEPT !.op = "init_free_map", !.ok = r.ok]
  /\ proto' = NoProto
  /\ UNCHANGED <<files, created, added>>
  /\ UNCHANGED <<cvars, ivars, mvars>>

CreateFile(path, length, ub, pad) ==
  /\ panic = NoPanic
  /\ RootOpens < MaxOpens
  /\ \E r \in {create_file(fs, path, length, ub, pad)} :
       /\ fs' = r.st
       /\ panic' = r.panic
       /\ last' = [NoCall EXCEPT !.op = "create_file", !.path = path,
                                 !.length = length, !.ok = r.ok]
       /\ created' = IF r.panic = NoPanic /\ r.ok
                     THEN created \cup {NewInumber(fs.open_list, r.st.open_list)}
                     ELSE created
       /\ added' = IF r.panic = NoPanic /\ r.ok
                   THEN added \cup {<<path, NewInumber(fs.open_list, r.st.open_list)>>}
                   ELSE added
       /\ proto' = IF r.panic = NoPanic /\ r.ok
                   THEN [NoProto EXCEPT !.stage = 1, !.path = path, !.length = length]
                   ELSE NoProto
  /\ UNCHANGED files
  /\ UNCHANGED <<cvars, ivars, mvars>>

OpenFile(path, ub) ==
  /\ panic = NoPanic
  /\ Len(files) < MaxHandles
  /\ RootOpens < MaxOpens
  /\ \E r \in {open_file(fs, path, ub)} :
       /\ fs' = r.st
       /\ panic' = r.panic
       /\ files' = files \o r.file
       /\ last' = [NoCall EXCEPT !.op = "open_file", !.path = path, !.ok = r.ok,
                                 !.h = IF r.ok THEN Len(files) + 1 ELSE 0]
       /\ proto' = IF proto.stage = 1 /\ proto.path = path /\ r.ok
                   THEN [proto EXCEPT !.stage = 2, !.h = Len(files) + 1]
                   ELSE NoProto
  /\ UNCHANGED <<created, added>>
  /\ UNCHANGED <<cvars, ivars, mvars>>

FileWrite(h, buffer, offset) ==
  /\ panic = NoPanic
  /\ \E r \in {file_write(fs, files[h], buffer, offset)} :
       /\ fs' = r.st
       /\ panic' = r.panic
       /\ files' = [files EXCEPT ![h] = r.file]
       /\ last' = [NoCall EXCEPT !.op = "file_write", !.h = h, !.n = r.n,
                                 !.buffer = buffer, !.ok = r.panic = NoPanic]
       /\ proto' = IF ~(proto.stage = 2 /\ proto.h = h /\ offset = 0
                        /\ Len(buffer) = proto.length)
                   THEN NoProto
                   ELSE IF r.panic # NoPanic THEN [proto EXCEPT !.stage = -1]
                   ELSE [proto EXCEPT !.stage = 3, !.s = buffer, !.wn = r.n]
  /\ UNCHANGED <<created, added>>
  /\ UNCHANGED <<cvars, ivars, mvars>>

SeekStart(h) ==
  /\ panic = NoPanic
  /\ files' = [files EXCEPT ![h] = seek_start(files[h])]
  /\ last' = [NoCall EXCEPT !.op = "seek_start", !.h = h, !.ok = TRUE]
  /\ proto' = IF proto.stage = 3 /\ proto.h = h THEN [proto EXCEPT !.stage = 4]
              ELSE NoProto
  /\ UNCHANGED <<fs, panic, created, added>>
  /\ UNCHANGED <<cvars, ivars, mvars>>

FileRead(h, len, offset) ==
  /\ panic = NoPanic
  /\ \E r \in {file_read(fs, files[h], ReadBuffer(len), offset)} :
       /\ fs' = r.st
       /\ panic' = r.panic
       /\ files' = [files EXCEPT ![h] = r.file]
       /\ last' = [NoCall EXCEPT !.op = "file_read", !.h = h, !.n = r.n,
                                 !.buffer = r.buffer, !.ok = r.panic = NoPanic,
                                 !.length = len, !.offset = files[h].pos + offset]
       /\ proto' = IF ~(proto.stage = 4 /\ proto.h = h /\ offset = 0
                        /\ len = proto.length)
                   THEN NoProto
                   ELSE IF r.panic # NoPanic THEN [proto EXCEPT !.stage = -1]
                   ELSE [proto EXCEPT !.stage = 5, !.rn = r.n, !.rbuf = r.buffer]
  /\ UNCHANGED <<created, added>>
  /\ UNCHANGED <<cvars, ivars, mvars>>

List(ub) ==
  /\ panic = NoPanic
  /\ RootOpens < MaxOpens
  /\ \E r \in {fs_list(fs, ub)} :
       /\ fs' = r.st
       /\ panic' = r.panic
       /\ last' = [NoCall EXCEPT !.op = "list", !.names = r.files,
                                 !.ok = r.panic = NoPanic]
  /\ proto' = NoProto
  /\ UNCHANGED <<files, created, added>>
  /\ UNCHANGED <<cvars, ivars, mvars>>

\* the positioned reads <<buffer length, offset>> the client issues besides the
\* reads of the whole file, on a VFile whose position is 0: a buffer of one
\* block at offset 0 (longer than the file if the file is shorter than a
\* block) and a buffer of half a block a quarter of a block before a boundary
ReadAts == {<<BLOCK_SIZE, 0>>, <<BLOCK_SIZE \div 2, BLOCK_SIZE - BLOCK_SIZE \div 4>>}

\* the client writes and reads as many bytes as the file of the VFile h has
IoLen(h) == InodeOf(fs, files[h]).data.len

\* a positioned read within the file, on a VFile whose position is 0
FileReadAt(h, len, offset) ==
  /\ files[h].pos = 0
  /\ offset <= IoLen(h)
  /\ FileRead(h, len, offset)

Next ==
  \/ InitFreeMap
  \/ \E path \in Names, length \in Lengths, ub \in BOOLEAN, pad \in PadBytes :
       CreateFile(path, length, ub, pad)
  \/ \E path \in InvalidNames, ub \in BOOLEAN, pad \in PadBytes :
       CreateFile(path, 0, ub, pad)
  \/ \E path \in Names \cup InvalidNames, ub \in BOOLEAN : OpenFile(path, ub)
  \/ \E h \in 1..Len(files), k \in 1..MaxPattern :
       FileWrite(h, Pattern(k, IoLen(h)), 0)
  \/ \E h \in 1..Len(files) : SeekStart(h)
  \/ \E h \in 1..Len(files) : FileRead(h, IoLen(h), 0)
  \/ \E h \in 1..Len(files), at \in ReadAts : FileReadAt(h, at[1], at[2])
  \/ \E ub \in BOOLEAN : List(ub)

Spec == Init /\ [][Next]_vars

(***************************************************************************)
(* The inode manager specification.  A client uses an InodeManager alone,   *)
(* over a raw VDisk and a FreeMap: it calls create_inode, open_inode and    *)
(* close in any order and keeps the handles it was given.  A handle is a    *)
(* reference to an element of open_list, that is a slot of the Vec's        *)
(* buffer; a Handle is that slot and, for the bookkeeping of the            *)
(* properties, the block the handle was given out for.  im.handles counts   *)
(* the handles the client holds of each kind, im.held counts them all.      *)
(***************************************************************************)
\* the capacity a Vec<Inode> takes at its first push; the table is kept
\* within it, so that no push moves the buffer
TableCap == 4

\* the disk_block_count of the device
InodeDiskBlocks == 5

\* the client holds at most MaxRefs handles
MaxRefs == 3

\* the lengths given to create_inode
InodeLengths == {0, BLOCK_SIZE}

Handles == [slot : 1..TableCap, block : 0..InodeDiskBlocks - 1]

\* the open_list of the table
OpenList(t) == SubSeq(t.slots, 1, t.len)

\* the buffer after a call that left the open_list ol
Stored(t, ol) == [i \in 1..TableCap |-> IF i <= Len(ol) THEN ol[i] ELSE t.slots[i]]

InodesInit ==
  /\ im = [slots |-> [i \in 1..TableCap |-> VacantSlot], len |-> 0,
           disk |-> NewDisk(InodeDiskBlocks), bitmap |-> FreeMapInit(InodeDiskBlocks),
           handles |-> [h \in Handles |-> 0], held |-> 0,
           refs |-> [b \in 0..InodeDiskBlocks - 1 |-> 0],
           inodes |-> {ROOT_INODE, FREE_MAP_INODE}, panic |-> NoPanic, op |-> "none"]
  /\ CacheIdle
  /\ FsIdle
  /\ FreeMapIdle

CreateInode(length) ==
  /\ im.panic = NoPanic
  /\ im.len < TableCap
  /\ im.held < MaxRefs
  /\ \E r \in {create_inode(length, im.disk, im.bitmap, OpenList(im))} :
       im' = IF r.panic # NoPanic
             THEN [im EXCEPT !.bitmap = r.bitmap, !.panic = r.panic,
                             !.op = "create_inode"]
             ELSE [im EXCEPT
                     !.slots = Stored(im, r.open_list),
                     !.len = Len(r.open_list),
                     !.disk = r.disk,
                     !.bitmap = r.bitmap,
                     !.handles[[slot |-> OpenIndex(r.open_list, r.inumber),
                                block |-> r.inumber]] = @ + 1,
                     !.held = @ + 1,
                     !.refs[r.inumber] = @ + 1,
                     !.inodes = @ \cup {r.inumber},
                     !.op = "create_inode"]
  /\ UNCHANGED <<cvars, fvars, mvars>>

\* the client opens the blocks that hold an inode: the root directory, the
\* free map and the inodes it created
OpenInode(block_num) ==
  /\ im.panic = NoPanic
  /\ block_num \in im.inodes
  /\ im.len < TableCap
  /\ im.held < MaxRefs
  /\ \E r \in {open_inode(OpenList(im), block_num, im.disk)} :
       im' = IF r.panic # NoPanic
             THEN [im EXCEPT !.panic = r.panic, !.op = "open_inode"]
             ELSE [im EXCEPT
                     !.slots = Stored(im, r.open_list),
                     !.len = Len(r.open_list),
                     !.handles[[slot |-> OpenIndex(r.open_list, block_num),
                                block |-> block_num]] = @ + 1,
                     !.held = @ + 1,
                     !.refs[block_num] = @ + 1,
                     !.op = "open_inode"]
  /\ UNCHANGED <<cvars, fvars, mvars>>

\* the client closes a handle h it holds
CloseInode(h) ==
  /\ im.panic = NoPanic
  /\ im.handles[h] > 0
  /\ \E r \in {close(im.slots, im.len, h.slot)} :
       im' = [im EXCEPT
                !.slots = r.slots,
                !.len = r.len,
                !.handles[h] = @ - 1,
                !.held = @ - 1,
                !.refs[h.block] = @ - 1,
                !.panic = r.panic,
                !.op = "close"]
  /\ UNCHANGED <<cvars, fvars, mvars>>

InodesNext ==
  \/ \E length \in InodeLengths : CreateInode(length)
  \/ \E block_num \in 0..InodeDiskBlocks - 1 : OpenInode(block_num)
  \/ \E h \in Handles : CloseInode(h)

InodesSpec == InodesInit /\ [][InodesNext]_vars

(***************************************************************************)
(* The free map specification.  A FreeMap is used alone: after init the    *)
(* client calls allocate with a dst vector that is empty or the one the    *)
(* previous call left, and _release.  handed is every block an allocate    *)
(* that returned true appended to dst.                                     *)
(***************************************************************************)
\* the free map covers the blocks 0 .. FreeBits-1
FreeBits == 7

\* allocate is called for 0 .. MaxAlloc blocks
MaxAlloc == 3

FreeMapInitial ==
  /\ fm = [bitmap |-> FreeMapInit(FreeBits), op |-> "init", blocks |-> 0, block |-> 0,
           before |-> <<>>, dst |-> <<>>, ok |-> FALSE, handed |-> <<>>,
           panic |-> NoPanic]
  /\ CacheIdle
  /\ FsIdle
  /\ InodesIdle

Allocate(blocks, keep) ==
  /\ fm.panic = NoPanic
  /\ \E r \in {allocate(fm.bitmap, blocks)} :
       fm' = [bitmap |-> r.bitmap, op |-> "allocate", blocks |-> blocks, block |-> 0,
              before |-> IF keep THEN fm.dst ELSE <<>>,
              dst |-> (IF keep THEN fm.dst ELSE <<>>) \o r.dst,
              ok |-> r.ok, handed |-> fm.handed \o r.dst, panic |-> NoPanic]
  /\ UNCHANGED <<cvars, fvars, ivars>>

Release(block) ==
  /\ fm.panic = NoPanic
  /\ \E r \in {release(fm.bitmap, block)} :
       fm' = [fm EXCEPT !.bitmap = r.bitmap, !.op = "release", !.block = block,
                        !.blocks = 0, !.before = fm.dst, !.ok = FALSE,
                        !.panic = r.panic]
  /\ UNCHANGED <<cvars, fvars, ivars>>

FreeMapNext ==
  \/ \E blocks \in 0..MaxAlloc, keep \in BOOLEAN : Allocate(blocks, keep)
  \/ \E block \in 0..FreeBits - 1 : Release(block)

FreeMapSpec == FreeMapInitial /\ [][FreeMapNext]_vars

(***************************************************************************)
(* Properties of the cache (checked under CacheSpec)                       *)
(***************************************************************************)
Occurrences(list, x) == Cardinality({i \in 1..Len(list) : list[i] = x})

AllLists(c) == c.t1 \o c.t2 \o c.b1 \o c.b2

InList(list, x) == \E i \in 1..Len(list) : list[i] = x

\* the writes of block pos that the cache issued to the device in the last call
LoggedWrites(c, pos) ==
  {i \in 1..Len(c.dev_log) : c.dev_log[i][1] = "write" /\ c.dev_log[i][2] = pos}

LoggedReads(c) == {i \in 1..Len(c.dev_log) : c.dev_log[i][1] = "read"}

\* C2: every call of a trace completes with the cache in front of the disk,
\* and a read through the cache returns the bytes the raw disk returns.
C2_CacheTransparency ==
  call.op # "none" =>
    /\ cache.panic = NoPanic
    /\ call.op = "read" => cache.buf = rawbuf

\* C3: in every step that evicts a block (resident before, not resident
\* after), a block written through the cache and not flushed since causes
\* exactly one device write of that block, carrying the bytes of the latest
\* cache write, which the device then holds; a clean block causes none.
C3_EvictStep ==
  \A pos \in DOMAIN cache.data_store :
    pos \notin DOMAIN cache'.data_store =>
      IF pos \in unflushed
      THEN /\ Cardinality(LoggedWrites(cache', pos)) = 1
           /\ \A i \in LoggedWrites(cache', pos) : cache'.dev_log[i][3] = raw[pos]
           /\ cache'.block_device[pos] = raw[pos]
      ELSE LoggedWrites(cache', pos) = {}

C3_DirtyWriteBack == [][C3_EvictStep]_vars

\* a dirty block has been evicted: the device holds bytes it got by write-back
C3_Witness ==
  /\ cache.panic = NoPanic
  /\ \E i \in 1..Len(cache.dev_log) :
       /\ cache.dev_log[i][1] = "write"
       /\ cache.dev_log[i][2] # call.pos
       /\ InList(cache.b1 \o cache.b2, cache.dev_log[i][2])
       /\ cache.dev_log[i][3] # EMPTY_BLOCK
  /\ call.op \in {"read", "write"}

\* C4: a block number occurs at most once in T1, T2, B1, B2 together, and it
\* has a data-store entry iff it is in T1 or T2.
C4_ListsDisjoint ==
  \A pos \in CachePositions :
    /\ Occurrences(AllLists(cache), pos) <= 1
    /\ pos \in DOMAIN cache.data_store <=> InList(cache.t1 \o cache.t2, pos)

\* all four lists are occupied after a ghost hit
C4_Witness ==
  /\ cache.panic = NoPanic
  /\ Len(cache.t1) > 0 /\ Len(cache.t2) > 0 /\ Len(cache.b1) > 0 /\ Len(cache.b2) > 0
  /\ Ghost(call.loc)

\* C5: a read or write of a block in B1 or B2 completes, removes the block
\* from its ghost list and leaves it resident at the MRU end of T2; a read
\* ghost hit reads the device exactly once.
C5_GhostHit ==
  (call.op \in {"read", "write"} /\ Ghost(call.loc)) =>
    /\ cache.panic = NoPanic
    /\ ~InList(cache.b1 \o cache.b2, call.pos)
    /\ Len(cache.t2) > 0 /\ cache.t2[Len(cache.t2)] = call.pos
    /\ call.pos \in DOMAIN cache.data_store
    /\ call.op = "read" => Cardinality(LoggedReads(cache)) = 1

\* C6: |T1| + |T2| <= capacity and the data store holds |T1| + |T2| buffers.
C6_ResidentBound ==
  /\ Len(cache.t1) + Len(cache.t2) <= cache.capacity
  /\ Cardinality(DOMAIN cache.data_store) = Len(cache.t1) + Len(cache.t2)

\* a miss on a full cache has evicted a block and installed another
C6_Witness ==
  /\ cache.panic = NoPanic
  /\ call.op \in {"read", "write"} /\ call.loc = "None"
  /\ Len(cache.t1) + Len(cache.t2) = cache.capacity
  /\ Len(cache.b1) + Len(cache.b2) > 0

\* C7: |T1| + |B1| <= capacity, |B1| + |B2| <= capacity and
\* |T1| + |T2| + |B1| + |B2| <= 2 * capacity.
C7_GhostBound ==
  /\ Len(cache.t1) + Len(cache.b1) <= cache.capacity
  /\ Len(cache.b1) + Len(cache.b2) <= cache.capacity
  /\ Len(AllLists(cache)) <= 2 * cache.capacity

(***************************************************************************)
(* Properties of the facade (checked under Spec)                           *)
(***************************************************************************)
\* C1 (round trip): whenever the client has gone through create_file(name, |s|)
\* returning true, open_file(name) returning a handle, file_write(handle, s, 0),
\* seek_start(handle) and file_read(handle, buf, 0) with |buf| = |s|, neither
\* the write nor the read aborted the process, both returned |s|, and buf = s.
C1_RoundTrip ==
  /\ proto.stage # -1
  /\ proto.stage = 5 =>
       /\ proto.wn = proto.length
       /\ proto.rn = proto.length
       /\ proto.rbuf = proto.s

\* the elements of a sequence
Range(seq) == {seq[i] : i \in 1..Len(seq)}

\* the in-memory inode whose block is inumber
InodeAt(inumber) == fs.open_list[OpenIndex(fs.open_list, inumber)]

\* the blocks block_range resolves for the bytes 0 .. len-1 of the file
FileBlocks(inumber) ==
  LET data == InodeAt(inumber).data
  IN  Range(block_range(data, data.len, 0, fs.disk).blocks)

\* C8 (no double-allocate): after a create_file call that returned true, the
\* sets of blocks that the index trees of any two distinct created files resolve
\* for the bytes of the file are disjoint.
C8_NoDoubleAllocate ==
  (panic = NoPanic /\ last.op = "create_file" /\ last.ok) =>
    \A i, j \in created : i # j => FileBlocks(i) \cap FileBlocks(j) = {}

\* the pointers of a pointer sequence that are set
NonZero(ptrs) == Range(ptrs) \ {0}

\* the pointers that are set in the pointer block b of the disk
PtrsAt(b) ==
  IF DiskReadOk(fs.disk, b) THEN NonZero(BlockToPtrs(DiskRead(fs.disk, b))) ELSE {}

\* every block reachable from the index of an inode: the direct pointers, the
\* indirect blocks and their pointers, the doubly-indirect blocks, the indirect
\* blocks they point to, and the pointers of these
IndexBlocks(data) ==
  LET ind == NonZero(data.indirect)
      dbl == NonZero(data.doubly_indirect)
      mid == UNION {PtrsAt(b) : b \in dbl}
  IN  NonZero(data.direct) \cup ind \cup UNION {PtrsAt(b) : b \in ind}
      \cup dbl \cup mid \cup UNION {PtrsAt(b) : b \in mid}

\* the blocks the free map has to hold: the reserved blocks, and the inode
\* block and the index blocks of every inode of the open-inode table (no inode
\* is ever closed, so the table holds every inode there is)
AccountedBlocks ==
  {ROOT_INODE, FREE_MAP_INODE}
  \cup {fs.open_list[i].block : i \in 1..Len(fs.open_list)}
  \cup UNION {IndexBlocks(fs.open_list[i].data) : i \in 1..Len(fs.open_list)}

\* C9 (free-map accounting): after every facade operation that returned, bit b
\* of the free map is set iff b is reserved, or the inode block of a live
\* inode, or a data or indirection block reachable from a live inode's index.
C9_FreeMapAccounting ==
  (panic = NoPanic /\ fs.free_map # <<>>) =>
    \A b \in DOMAIN fs.free_map[1] : fs.free_map[1][b] <=> b \in AccountedBlocks

\* the number of bits of the bitmap that are clear
FreeCount(bitmap) == Cardinality({b \in DOMAIN bitmap : ~bitmap[b]})

\* the length of the root directory
RootLen ==
  IF OpenIndex(fs.open_list, ROOT_INODE) = 0
  THEN BlockToInode(DiskRead(fs.disk, ROOT_INODE)).len
  ELSE InodeAt(ROOT_INODE).data.len

\* a create_file(name, length) step
C10_Step ==
  (/\ panic = NoPanic
   /\ fs.free_map # <<>>
   /\ last'.op = "create_file"
   /\ FreeCount(fs.free_map[1]) < 1 + CeilDiv(last'.length, BLOCK_SIZE))
  => (/\ panic' = NoPanic
      /\ ~last'.ok
      /\ RootLen' = RootLen)

\* C10 (out of space is a returned failure): a create_file(name, length) called
\* while the free map has fewer than 1 + ceil(length / BLOCK_SIZE) clear bits
\* returns false, does not abort the process, and adds no directory entry.
C10_OutOfSpace == [][C10_Step]_vars

\* a create_file(name, length) step, seen from FreeMap::allocate: the call
\* allocate(1 + ceil(length / BLOCK_SIZE)) on the free map before the step
C11_Step ==
  (/\ panic = NoPanic
   /\ fs.free_map # <<>>
   /\ last'.op = "create_file"
   /\ ~allocate(fs.free_map[1], 1 + CeilDiv(last'.length, BLOCK_SIZE)).ok)
  => (/\ allocate(fs.free_map[1], 1 + CeilDiv(last'.length, BLOCK_SIZE)).dst = <<>>
      /\ allocate(fs.free_map[1], 1 + CeilDiv(last'.length, BLOCK_SIZE)).bitmap
           = fs.free_map[1]
      /\ fs'.free_map = fs.free_map)

\* C11 (transactional allocation): an allocate(k, out) that cannot obtain k
\* free blocks returns false, appends nothing to out and leaves every bit of
\* the bitmap as it was; after a create_file that fails for lack of space the
\* free map is what it was before the call.
C11_TransactionalAllocate == [][C11_Step]_vars

\* the names of the files whose create_file returned true
AddedNames == {p[1] : p \in added}

\* C12 (directory list fidelity): after create_file calls that returned true
\* for pairwise distinct valid names, list returns exactly the names added so
\* far.
C12_ListFidelity ==
  (/\ panic = NoPanic
   /\ last.op = "list"
   /\ AddedNames \subseteq Names
   /\ Cardinality(AddedNames) = Cardinality(added))
  => Range(last.names) = AddedNames

\* C13 (lookup after add): whenever open_file(name) returns, it returns a
\* handle exactly when an earlier create_file(name, _) returned true, and the
\* handle's inumber is the inode block that create allocated.
C13_LookupAfterAdd ==
  (panic = NoPanic /\ last.op = "open_file")
  => /\ last.ok <=> last.path \in AddedNames
     /\ last.ok => <<last.path, files[last.h].inumber>> \in added

\* the inode of the root directory: the open one, or the one open_inode loads
RootData ==
  IF OpenIndex(fs.open_list, ROOT_INODE) = 0
  THEN BlockToInode(DiskRead(fs.disk, ROOT_INODE))
  ELSE InodeAt(ROOT_INODE).data

\* the entry records of the root directory, by slot
RootEntries ==
  [i \in 0..(RootLen \div ENTRY_SIZE) - 1 |->
     read_at(RootData, Zeros(ENTRY_SIZE), i * ENTRY_SIZE, fs.disk).buffer]

\* the names Dir::list returns for the root directory
RootList(ub) == dir_list(RootData, fs.disk, ub)

\* Dir::lookup of the root directory finds the name
RootFinds(path) ==
  \E ub \in BOOLEAN :
    /\ lookup(RootData, path, fs.disk, ub).panic = NoPanic
    /\ lookup(RootData, path, fs.disk, ub).found

\* a create_file(name, _) step for a name the root directory already holds
C14_Step ==
  (/\ panic = NoPanic
   /\ fs.free_map # <<>>
   /\ last'.op = "create_file"
   /\ RootFinds(last'.path))
  => (/\ panic' = NoPanic
      /\ ~last'.ok
      /\ RootLen' = RootLen
      /\ RootEntries' = RootEntries
      /\ \A ub \in BOOLEAN : RootList(ub)' = RootList(ub))

\* C14 (name collision): a create_file(name, _) for a name whose lookup
\* already succeeds returns false and leaves the directory unchanged: the
\* length of the directory inode, every entry record and the result of list.
C14_NameCollision == [][C14_Step]_vars

\* the name is empty, longer than NAME_MAX bytes, or has a non-ASCII char
InvalidName(path) ==
  \/ path = <<>>
  \/ Utf8Len(path) > NAME_MAX
  \/ \E i \in 1..Len(path) : path[i] >= 128

\* a create_file(name, _) or open_file(name) step with an invalid name
C15_Step ==
  (/\ panic = NoPanic
   /\ \/ last'.op = "create_file" /\ fs.free_map # <<>>
      \/ last'.op = "open_file"
   /\ InvalidName(last'.path))
  => (/\ panic' = NoPanic
      /\ ~last'.ok
      /\ RootLen' = RootLen
      /\ RootEntries' = RootEntries)

\* C15 (name invalid): create_file and open_file with a name that is empty,
\* longer than NAME_MAX bytes, or that contains a non-ASCII char return
\* failure without aborting the process and leave the directory unchanged.
C15_NameInvalid == [][C15_Step]_vars

\* the byte of the file of the VFile h at offset k: what a read of one byte
\* at k delivers
FileByte(h, k) == read_at(InodeOf(fs, files[h]).data, <<0>>, k, fs.disk).buffer[1]

\* a file_read step: a read_at of a buffer of last'.length bytes at the offset
\* last'.offset of an inode of IoLen bytes
C16_Step ==
  (/\ panic = NoPanic
   /\ last'.op = "file_read"
   /\ last'.offset <= IoLen(last'.h))
  => (/\ panic' = NoPanic
      /\ last'.n = Min(last'.length, IoLen(last'.h) - last'.offset)
      /\ \A j \in 1..last'.n :
           last'.buffer[j] = FileByte(last'.h, last'.offset + j - 1))

\* C16 (positioned read): a read_at on an inode of length L with an offset o,
\* 0 <= o <= L, and a buffer of n bytes completes, returns min(n, L - o), and
\* the first min(n, L - o) bytes of the buffer are the bytes o .. of the file;
\* this includes ranges that cross a block boundary and buffers longer than
\* the rest of the file.
C16_PositionedRead == [][C16_Step]_vars

(***************************************************************************)
(* Properties of the inode manager (checked under InodesSpec)              *)
(***************************************************************************)
\* the open-inode table agrees with the creates, opens and closes so far
TableCounts(t) ==
  /\ \A i, j \in 1..t.len : i # j => t.slots[i].block # t.slots[j].block
  /\ \A i \in 1..t.len :
       /\ t.slots[i].open_count >= 1
       /\ t.slots[i].open_count = t.refs[t.slots[i].block]
  /\ \A b \in DOMAIN t.refs :
       t.refs[b] > 0 => \E i \in 1..t.len : t.slots[i].block = b

\* a step of the inode manager
C17_Step ==
  /\ im'.panic = NoPanic => TableCounts(im')
  /\ im'.op = "close" => /\ im'.panic = NoPanic
                         /\ im'.disk = im.disk

\* C17 (open-inode table reference counting): after any sequence of
\* create_inode, open_inode(b) and close(handle) calls the table holds at most
\* one entry per block, every entry has an open_count of at least 1 that equals
\* the creates and opens of its block minus the closes, an entry is in the
\* table exactly while that count is positive, and close leaves the device as
\* it is.
C17_RefCounting == [][C17_Step]_vars

\* block pos has been written through the cache: the raw disk, which receives
\* the same writes, holds a written buffer (no written buffer is all zero)
Written(pos) == raw[pos] # EMPTY_BLOCK

\* a call of the cache, seen as a step
C18_Step ==
  /\ (call'.op = "read" /\ Written(call'.pos))
       => (cache'.panic = NoPanic /\ cache'.buf = raw[call'.pos])
  /\ \A pos \in CachePositions :
       LoggedWrites(cache', pos) # {}
         => \/ call'.op = "flush"
            \/ pos \in DOMAIN cache.data_store /\ pos \notin DOMAIN cache'.data_store
  /\ call'.op = "write" => LoggedReads(cache') = {}
  /\ (call'.op = "read" /\ Resident(call'.loc)) => cache'.dev_log = <<>>

\* C18 (write visibility ordering): the buffer of a cache write(pos, buf) is
\* what every later cache read(pos) returns until the next write to pos; the
\* device receives a write to a block only when the block is evicted or on
\* flush; a cache write never reads the device, and a read of a resident block
\* makes no call to the device.
C18_WriteVisibility == [][C18_Step]_vars

\* a call of the cache: the target stays in range and moves only on a ghost hit
C19_Step ==
  /\ 0 <= cache'.p
  /\ cache'.p <= cache'.capacity
  /\ cache'.p # cache.p => (call'.op \in {"read", "write"} /\ Ghost(call'.loc))

\* C19 (target range): the adaptive target p starts at 0, satisfies
\* 0 <= p <= capacity in every reachable state, and changes only in a call
\* that is a ghost hit (not on a resident hit, a cold miss or flush).
C19_TargetRange == cache.p = 0 /\ [][C19_Step]_vars

\* a ghost hit has completed and left the target at the capacity
C19_Witness ==
  /\ cache.panic = NoPanic
  /\ call.op \in {"read", "write"}
  /\ Ghost(call.loc)
  /\ cache.p = cache.capacity

\* the blocks a step took from the free map
Taken == {b \in DOMAIN fs.free_map[1] : ~fs.free_map[1][b] /\ fs'.free_map[1][b]}

\* the indirection blocks of an inode: the indirect block, the doubly-indirect
\* block and the indirect blocks the doubly-indirect block points to
IndirectionBlocks(data, disk) ==
  NonZero(data.indirect) \cup NonZero(data.doubly_indirect)
  \cup UNION {IF DiskReadOk(disk, b) THEN NonZero(BlockToPtrs(DiskRead(disk, b)))
              ELSE {} : b \in NonZero(data.doubly_indirect)}

\* the index of the inode data resolves the ceil(length / BLOCK_SIZE) file
\* blocks to distinct data blocks among the taken blocks
IndexOk(data, disk, inumber, length, taken) ==
  /\ data.len = length
  /\ block_range(data, length, 0, disk).ok
  /\ Len(block_range(data, length, 0, disk).blocks) = CeilDiv(length, BLOCK_SIZE)
  /\ \A i, j \in 1..Len(block_range(data, length, 0, disk).blocks) :
       i # j => block_range(data, length, 0, disk).blocks[i]
                # block_range(data, length, 0, disk).blocks[j]
  /\ Range(block_range(data, length, 0, disk).blocks)
       \subseteq (taken \ ({ROOT_INODE, FREE_MAP_INODE, inumber}
                           \cup IndirectionBlocks(data, disk)))
  /\ CeilDiv(length, BLOCK_SIZE) > N_DIRECT + PTRS_PER_BLOCK
       => (NonZero(data.doubly_indirect) # {} /\ NonZero(data.indirect) # {}
           /\ NonZero(data.doubly_indirect) \cap NonZero(data.indirect) = {})

\* a create_file(name, length) step that returned true, with enough free space
\* before it: the create_inode(length) of the step
C20_Step ==
  (/\ panic = NoPanic
   /\ fs.free_map # <<>>
   /\ last'.op = "create_file"
   /\ last'.ok
   /\ FreeCount(fs.free_map[1]) >= 1 + CeilDiv(last'.length, BLOCK_SIZE))
  => (/\ Cardinality(Taken) = 1 + CeilDiv(last'.length, BLOCK_SIZE)
      /\ NewInumber(fs.open_list, fs'.open_list) \in Taken
      /\ \A b \in Taken : NewInumber(fs.open_list, fs'.open_list) <= b
      /\ IndexOk(fs'.open_list[Len(fs.open_list) + 1].data, fs'.disk,
                 NewInumber(fs.open_list, fs'.open_list), last'.length, Taken))

\* C20 (create populates the index): a create_inode(length) with enough free
\* space takes exactly 1 + ceil(length / BLOCK_SIZE) blocks from the free map,
\* the first of them is the inode block, and the index walk resolves every file
\* block to a distinct block taken by this call that is not reserved, not the
\* inode block and not an indirection block; the doubly-indirect pointer is in
\* doubly_indirect and leaves indirect as it is.
C20_CreateIndex == [][C20_Step]_vars

\* the blocks the index of the root directory resolves for its first n blocks
RootBlocks(data, disk, n) == block_range(data, n * BLOCK_SIZE, 0, disk).blocks

\* a create_file step that returned true and whose Dir::add extended the
\* directory: the set_len(old_len + ENTRY_SIZE) of the step
C21_Step ==
  (/\ panic = NoPanic
   /\ fs.free_map # <<>>
   /\ last'.op = "create_file"
   /\ panic' = NoPanic
   /\ last'.ok
   /\ RootLen' = RootLen + ENTRY_SIZE)
  => IF CeilDiv(RootLen', BLOCK_SIZE) <= CeilDiv(RootLen, BLOCK_SIZE)
     THEN /\ RootData'.direct = RootData.direct
          /\ RootData'.indirect = RootData.indirect
          /\ RootData'.doubly_indirect = RootData.doubly_indirect
     ELSE /\ Len(RootBlocks(RootData', fs'.disk, CeilDiv(RootLen', BLOCK_SIZE)))
               = CeilDiv(RootLen', BLOCK_SIZE)
          /\ \A i \in 1..CeilDiv(RootLen, BLOCK_SIZE) :
               RootBlocks(RootData', fs'.disk, CeilDiv(RootLen', BLOCK_SIZE))[i]
               = RootBlocks(RootData, fs.disk, CeilDiv(RootLen, BLOCK_SIZE))[i]
          /\ \A i \in CeilDiv(RootLen, BLOCK_SIZE) + 1..CeilDiv(RootLen', BLOCK_SIZE) :
               RootBlocks(RootData', fs'.disk, CeilDiv(RootLen', BLOCK_SIZE))[i] \in Taken
          /\ BlockToInode(DiskRead(fs'.disk, ROOT_INODE)) = RootData'

\* C21 (set_len growth): when Dir::add extends the directory, a new length that
\* needs no more blocks than the inode has leaves the index as it is, and a new
\* length that needs more blocks takes the missing blocks from the free map,
\* appends them to the index after the existing blocks, and writes the inode
\* block back; the first add to the empty root directory gives it a freshly
\* allocated data block.
C21_SetLenGrowth == [][C21_Step]_vars

\* the adaptation step for a hit in the ghost list of own_len elements
AdaptDelta(own_len, other_len) ==
  IF own_len >= other_len THEN Max(1, other_len \div own_len) ELSE 1

\* a read or write of a block that is in B1 or B2
C22_Step ==
  (/\ cache.panic = NoPanic
   /\ call'.op \in {"read", "write"}
   /\ Ghost(call'.loc))
  => (/\ cache'.panic = NoPanic
      /\ call'.loc = "B1" =>
           cache'.p = Min(cache.p + AdaptDelta(Len(cache.b1), Len(cache.b2)),
                          cache.capacity)
      /\ call'.loc = "B2" =>
           cache'.p = Max(cache.p - AdaptDelta(Len(cache.b2), Len(cache.b1)), 0)
      /\ ~InList(cache'.b1 \o cache'.b2, call'.pos))

\* C22 (adaptation step): a read or write ghost hit in B1 completes with
\* p = min(p + d, capacity), d = max(1, |B2| div |B1|) when |B1| >= |B2| and 1
\* otherwise; a ghost hit in B2 completes with p = max(p - d, 0),
\* d = max(1, |B1| div |B2|) when |B2| >= |B1| and 1 otherwise; read and write
\* use the list sizes of the state the call starts in, and the block leaves
\* its ghost list.
C22_Adaptation == [][C22_Step]_vars

\* a list without the block x
Without(list, x) == SelectSeq(list, LAMBDA y : y # x)

\* the choice the eviction of a step has to make: the sizes of T1 and T2 are
\* those before the call, the target is the one the call adapted
VictimFromT1 ==
  Len(cache.t1) > 0 /\ (Len(cache.t1) > cache'.p \/ Len(cache.t2) = 0)

\* a step that evicts the block e (resident before, not resident after)
C23_Step ==
  \A e \in DOMAIN cache.data_store :
    e \notin DOMAIN cache'.data_store =>
      /\ e = IF VictimFromT1 THEN Head(cache.t1) ELSE Head(cache.t2)
      /\ cache'.b1 = IF VictimFromT1 THEN Append(Without(cache.b1, call'.pos), e)
                     ELSE Without(cache.b1, call'.pos)
      /\ cache'.b2 = IF VictimFromT1 THEN Without(cache.b2, call'.pos)
                     ELSE Append(Without(cache.b2, call'.pos), e)
      /\ DOMAIN cache.data_store \ DOMAIN cache'.data_store = {e}
      /\ Without(cache'.t1, call'.pos) = Without(cache.t1, e)
      /\ Without(cache'.t2, call'.pos) = Without(cache.t2, e)
      /\ \A q \in DOMAIN cache'.data_store \ {call'.pos} :
           q \in DOMAIN cache.data_store /\ cache'.data_store[q] = cache.data_store[q]

\* C23 (eviction choice): every eviction removes the front element of T1 if
\* |T1| > 0 and (|T1| > p or |T2| = 0), and otherwise the front element of T2;
\* the evicted block number is appended at the MRU end of B1 when it came from
\* T1 and of B2 when it came from T2, and its data-store entry is removed; the
\* other resident blocks keep their list, their order and their buffers.
C23_EvictionChoice == [][C23_Step]_vars

\* a miss on a full cache has evicted while the target was above 0, and both
\* ghost lists have received a victim
C23_Witness ==
  /\ cache.panic = NoPanic
  /\ call.op \in {"read", "write"}
  /\ ~Resident(call.loc)
  /\ cache.p > 0
  /\ Len(cache.b1) > 0 /\ Len(cache.b2) > 0
  /\ cache.b2[Len(cache.b2)] \notin DOMAIN cache.data_store
  /\ Len(cache.t1) + Len(cache.t2) = cache.capacity

\* a flush of the cache
C24_Step ==
  (cache.panic = NoPanic /\ call'.op = "flush") =>
    /\ cache'.panic = NoPanic
    /\ DirtySet(cache') = {}
    /\ \A pos \in DOMAIN cache'.data_store :
         cache'.block_device[pos] = cache'.data_store[pos].data
    /\ \A pos \in DOMAIN cache.data_store :
         Cardinality(LoggedWrites(cache', pos))
           = IF cache.data_store[pos].is_dirty THEN 1 ELSE 0
    /\ \A i \in 1..Len(cache'.dev_log) :
         /\ cache'.dev_log[i][1] = "write"
         /\ cache'.dev_log[i][2] \in DOMAIN cache.data_store
    /\ cache'.t1 = cache.t1 /\ cache'.t2 = cache.t2
    /\ cache'.b1 = cache.b1 /\ cache'.b2 = cache.b2
    /\ cache'.p = cache.p
    /\ DOMAIN cache'.data_store = DOMAIN cache.data_store
    /\ \A pos \in DOMAIN cache.data_store :
         cache'.data_store[pos].data = cache.data_store[pos].data
    /\ unflushed = {} => cache'.dev_log = <<>>

\* C24 (flush): after flush no data-store entry is dirty and the device holds
\* the cached bytes of every resident block; each entry that was dirty caused
\* exactly one device write and each clean entry none; T1, T2, B1, B2, p and
\* the cached buffers are unchanged; a flush with no write through the cache
\* since the previous flush issues no device write.
C24_Flush == [][C24_Step]_vars

\* a flush has written a dirty block back and passed over a clean one
C24_Witness ==
  /\ cache.panic = NoPanic
  /\ call.op = "flush"
  /\ Len(cache.dev_log) = 1
  /\ cache.dev_log[1][3] # EMPTY_BLOCK
  /\ Cardinality(DOMAIN cache.data_store) > 1

(***************************************************************************)
(* Properties of the free map (checked under FreeMapSpec)                  *)
(***************************************************************************)
\* the clear bits of a bitmap
ClearBits(bitmap) == {b \in DOMAIN bitmap : ~bitmap[b]}

\* what the last allocate appended to dst
Appended(m) == SubSeq(m.dst, Len(m.before) + 1, Len(m.dst))

\* an allocate(blocks, dst) call
C25_Step ==
  (fm.panic = NoPanic /\ fm'.op = "allocate") =>
    /\ fm'.panic = NoPanic
    /\ fm'.ok <=> Cardinality(ClearBits(fm.bitmap)) >= fm'.blocks
    /\ SubSeq(fm'.dst, 1, Len(fm'.before)) = fm'.before
    /\ fm'.ok =>
         /\ Len(Appended(fm')) = fm'.blocks
         /\ \A i, j \in 1..Len(Appended(fm')) :
              i < j => Appended(fm')[i] < Appended(fm')[j]
         /\ Range(Appended(fm')) \subseteq ClearBits(fm.bitmap)
         /\ \A b \in Range(Appended(fm')), c \in ClearBits(fm.bitmap) :
              c \notin Range(Appended(fm')) => b < c
         /\ fm'.bitmap = [b \in DOMAIN fm.bitmap |->
                            fm.bitmap[b] \/ b \in Range(Appended(fm'))]
    /\ ~fm'.ok => Appended(fm') = <<>>
    /\ \A i, j \in 1..Len(fm'.handed) : i # j => fm'.handed[i] # fm'.handed[j]
    /\ Range(fm'.handed) \cap {ROOT_INODE, FREE_MAP_INODE} = {}

\* C25 (allocation result): allocate(k, out) returns true iff at least k bits
\* were clear before the call; on success it appends to out the k lowest clear
\* bit indices in ascending order, sets exactly those bits and changes no other
\* bit; no block, and in particular neither reserved block, is handed out twice
\* over any sequence of allocations.
C25_AllocationResult == [][C25_Step]_vars

\* an allocate of several blocks has returned true after an earlier one did,
\* appending to a dst that was not empty
C25_Witness ==
  /\ fm.op = "allocate"
  /\ fm.ok
  /\ fm.blocks > 1
  /\ fm.before # <<>>
  /\ Len(fm.handed) > Len(fm.dst) - Len(fm.before)

\* a release(n) call for a block n that is marked in the free map
C26_Step ==
  (fm.panic = NoPanic /\ fm'.op = "release" /\ fm.bitmap[fm'.block]) =>
    /\ fm'.panic = NoPanic
    /\ fm'.bitmap = [fm.bitmap EXCEPT ![fm'.block] = FALSE]

\* C26 (release): for a block n that is marked in the free map, release(n)
\* completes without aborting, clears bit n and leaves every other bit as it
\* is, so that a later allocate can return n again.
C26_Release == [][C26_Step]_vars

\* the blocks whose bytes on the device a step changed
Changed == {b \in DOMAIN fs'.disk : b \notin DOMAIN fs.disk \/ fs'.disk[b] # fs.disk[b]}

\* the metadata blocks: the reserved blocks, the inode block of every inode of
\* the open-inode table, and their indirection blocks
Metadata ==
  {ROOT_INODE, FREE_MAP_INODE}
  \cup {fs.open_list[i].block : i \in 1..Len(fs.open_list)}
  \cup UNION {IndirectionBlocks(fs.open_list[i].data, fs.disk) :
                i \in 1..Len(fs.open_list)}

\* a file_write that returned: the bytes go to data blocks of the file's inode
C27_FileStep ==
  (panic = NoPanic /\ panic' = NoPanic /\ last'.op = "file_write") =>
    /\ Changed \cap Metadata = {}
    /\ Changed \subseteq FileBlocks(files[last'.h].inumber)
    /\ \A b \in Changed : b \in DOMAIN fs.free_map[1] /\ fs.free_map[1][b]

\* a create_file that returned: the directory entry goes to no metadata block;
\* the root inode block changes only by receiving the root inode
C27_DirStep ==
  (panic = NoPanic /\ panic' = NoPanic /\ last'.op = "create_file") =>
    /\ ROOT_INODE \in Changed => DiskRead(fs'.disk, ROOT_INODE) = InodeToBlock(RootData')
    /\ Changed \cap (Metadata \ {ROOT_INODE}) = {}

C27_Step == C27_FileStep /\ C27_DirStep

\* C27 (data writes stay off metadata blocks): no write_at through a file inode
\* or the root directory inode changes a reserved block, an inode block or an
\* indirection block; file bytes go only to blocks that are marked in the free
\* map and that the file's own index resolves as data blocks, and block 0
\* changes only by receiving the root inode.
C27_DataOffMetadata == [][C27_Step]_vars

\* the entries of the open-inode table other than the root directory's
TableWithoutRoot(open_list) == SelectSeq(open_list, LAMBDA e : e.block # ROOT_INODE)

\* a create_file that returned false
C28_Step ==
  (/\ panic = NoPanic
   /\ fs.free_map # <<>>
   /\ last'.op = "create_file"
   /\ panic' = NoPanic
   /\ ~last'.ok)
  => (/\ fs'.free_map = fs.free_map
      /\ TableWithoutRoot(fs'.open_list) = TableWithoutRoot(fs.open_list))

\* C28 (a failed create_file has no side effects on allocation): when
\* create_file(name, length) returns false because the name exists or is
\* invalid, the free-map bitmap is the same as before the call and the
\* open-inode table holds the same inodes (the root directory's entry apart).
C28_FailedCreate == [][C28_Step]_vars

\* a create_file, open_file or list that returned
C29_Step ==
  (/\ panic = NoPanic
   /\ panic' = NoPanic
   /\ last'.op \in {"create_file", "open_file", "list"})
  => (/\ RootOpens' = RootOpens
      /\ last'.op = "create_file" =>
           \A i \in 1..Len(fs'.open_list) :
             (\A j \in 1..Len(fs.open_list) :
                fs.open_list[j].block # fs'.open_list[i].block)
             => fs'.open_list[i].block = ROOT_INODE)

\* C29 (handles are balanced): every inode handle opened inside a facade
\* operation is closed before the operation returns: the root directory's
\* open_count is the same before and after create_file, open_file and list, and
\* the inode create_inode opened inside create_file is no longer in the
\* open-inode table when create_file returns.
C29_HandlesBalanced == [][C29_Step]_vars

\* the resident lists are full whenever a ghost list is occupied
FullWhenGhosts ==
  (Len(cache.b1) + Len(cache.b2) > 0) => Len(cache.t1) + Len(cache.t2) = cache.capacity

\* a call of the cache: evict finds a victim, and a miss on a full cache evicts
\* one block and installs the called one
C30_Step ==
  /\ FullWhenGhosts'
  /\ cache'.panic # EVICT_EMPTY_ERR
  /\ (/\ cache.panic = NoPanic
      /\ call'.op \in {"read", "write"}
      /\ ~Resident(call'.loc)
      /\ Len(cache.t1) + Len(cache.t2) = cache.capacity)
     => (/\ cache'.panic = NoPanic
         /\ Cardinality(DOMAIN cache.data_store \ DOMAIN cache'.data_store) = 1
         /\ DOMAIN cache'.data_store \ DOMAIN cache.data_store = {call'.pos})

\* C30 (eviction precondition): in every reachable cache state in which B1 or
\* B2 is non-empty, |T1| + |T2| = capacity; evict is never called with T1 and
\* T2 both empty; and each miss on a full cache evicts exactly one block and
\* installs exactly one.
C30_EvictionPrecondition == [][C30_Step]_vars

====
